---- MODULE Spec2Model ----
(***************************************************************************)
(* Aspect / event computation engine of AstroDrawChart.                    *)
(*                                                                         *)
(* Units.  Longitudes, angles, orbs and daily speeds are integers in       *)
(* millidegrees (1 degree = 1000), so that the 0.5, 1.5 and 0.001 degree   *)
(* constants of the source and its toFixed(3) longitudes are exact.        *)
(* Instants of the bisection search are integer milliseconds, as the       *)
(* values of a JavaScript Date are.                                        *)
(***************************************************************************)
EXTENDS Integers, Sequences, FiniteSets, TLC

VARIABLES
    \* ---- aspect matcher: one call of findTransitAspect
    calc,        \* which calculator class runs: "combined", "transit", "synastry"
    owner,       \* transitPlanet argument (the key of the position map)
    lonA,        \* transitLong argument
    lonB,        \* natalLong argument
    found,       \* the value returned (aspect = "pending" before the call)
    orbsTried,   \* the tolerance computed for each catalog entry the loop visited
    anglePair,   \* << angle(lonA, lonB), angle(lonB, lonA) >> once computed
    \* ---- pairwise builders: one call of a builder
    builder,     \* "natal", "twoCharts" or "transits"
    setA,        \* first position map, in key order (positions / transitPositions)
    setB,        \* second position map, in key order (angles / natalPositions)
    bDone,       \* the builder has returned
    aspects,     \* the list it returned
    tested,      \* the (name, name) pairs it handed to the matcher, in order
    \* ---- house resolver: one call of determinePlanetHouse
    cusps,       \* the 12 cusp longitudes, index = house number
    hLon,        \* planetLongitude argument
    house,       \* the value returned: [number, fallback]; number = 0 before the call
    \* ---- motion classifier: one iteration of a builder loop on one pair
    mOp,         \* "none", then the loop that ran: "natal", "combined", "transit"
    mA,          \* the first position of the pair
    mB,          \* the second position of the pair
    mRec,        \* the record the iteration pushed (aspect = "null": none)
    \* ---- findExactMoment: one call, instants in milliseconds
    fmPc,        \* "idle", "call", "loop", "done"
    fmStart,     \* startDate
    fmEnd,       \* endDate
    fmPrec,      \* precisionMs
    fmTruthy,    \* the instants at which checkFunction returns true
    fmLow,       \* low
    fmHigh,      \* high
    fmResult,    \* the value returned: [null, time]
    fmEvals,     \* the instants checkFunction was called with
    fmSteps,     \* iterations of the while loop so far
    \* ---- findSolarReturnMoment: one call; longitudes in microdegrees,
    \* ---- searchJD in microdays after the starting instant
    srPc,        \* "idle", "loop", "returned", "threw"
    srTarget,    \* natalSunLongitude
    srJD,        \* searchJD
    srI,         \* the loop index i
    srQueries,   \* calls of swe_calc_ut so far
    srLast,      \* the last query: [ok, jd, diff, speed, met]
    srResult,    \* the Date returned, in whole seconds after the starting instant
    \* ---- a body of constant speed standing in for the ephemeris
    lbBase,      \* its longitude at the starting instant, microdegrees
    lbSpeed,     \* its speed, microdegrees a day
    \* ---- estimatePeakDate: one call; longitudes in millidegrees, the speed
    \* ---- in microdegrees a day, the Date as days and milliseconds after asOf
    pkCalc,      \* "idle", then the calculator: "combined" or "transit"
    pkTransit,   \* transitPos: [longitude, longitudeSpeed, speedDefined]
    pkNatal,     \* natalPos.longitude
    pkTarget,    \* targetAngle
    pkDone,      \* the call has returned
    pkResult,    \* the value returned: [null, invalid, days, ms]
    \* ---- calculatePlanetaryPositions: one call
    bpCalc,      \* "idle", then the calculator: "combined" or "transit2"
    bpOutcome,   \* per body of the planets table: "ok", "flag" (rflag < 0), "throw"
    bpStatus,    \* "idle", "call", "returned", "threw"
    bpKeys,      \* the keys of the positions map returned
    \* ---- checkPlanetSignChange / checkPlanetRetrogradeChange: one call
    evIn,        \* the call and the sky: [kind, planetId, end, cross, failLo, failHi]
    evDone,      \* the call has returned
    evOut,       \* the value returned: [outcome, from, to, exactNull, exactTime]
    evFailed,    \* some query of the call came back with rflag < 0
    \* ---- calculateTransits / calculateAspects with their summary: one call
    smCalc,      \* "idle", then the calculator: "transit" or "synastry"
    smNatal,     \* natalPositions, in key order
    smTransit,   \* transitPositions, in key order
    smAspects,   \* transits.aspects as returned
    smSummary,   \* transits.summary as returned
    gcSwitch,    \* this.considerAspectsCompatibility
    gcPlanets,   \* the planets of generateChart, in key order
    gcAngles,    \* { AS, MC }
    gcMatched,   \* what calculateNatalAspects returned
    gcAspects,   \* chart.aspects
    gcAgain,     \* filterAspects of chart.aspects
    gcPc,        \* "idle", "call", "charted", "refiltered"
    emBodies,    \* result.longitude of swe_calc_ut per body, in 1/10000 degree
    emAsc,       \* result.ascendant of swe_houses, in 1/10000 degree
    emMc,        \* result.mc of swe_houses, in 1/10000 degree
    emDone,      \* the chart data has been computed
    emChart,     \* houses, angles, planets and natal aspects as emitted
    frOp,        \* "idle", then the operation called
    frPositions, \* the position objects handed to the operation
    frAngles,    \* the angle objects handed to the operation
    frCusps,     \* the cusps handed to the operation
    frGiven,     \* the positions and angles as they were at the call
    frDone,      \* the operation has returned
    frResult,    \* what it returned
    ctMatcher,   \* "natal", or the calculator whose findTransitAspect is used
    ctOwner,     \* the transiting body handed to findTransitAspect
    ctAngle,     \* the angle between the two bodies
    ctFound,     \* -1, then the catalog index returned, 0 for null
    rsCusps,     \* the twelve cusps, first house first
    rsLon,       \* the longitude resolved
    rsNumber     \* per resolver the house number returned, 0 before its call

aspVars == <<calc, owner, lonA, lonB, found, orbsTried, anglePair>>
bldVars == <<builder, setA, setB, bDone, aspects, tested>>

hseVars == <<cusps, hLon, house>>

motVars == <<mOp, mA, mB, mRec>>

fmVars == <<fmPc, fmStart, fmEnd, fmPrec, fmTruthy, fmLow, fmHigh, fmResult,
            fmEvals, fmSteps>>

srVars == <<srPc, srTarget, srJD, srI, srQueries, srLast, srResult>>

lbVars == <<lbBase, lbSpeed>>

pkVars == <<pkCalc, pkTransit, pkNatal, pkTarget, pkDone, pkResult>>

bpVars == <<bpCalc, bpOutcome, bpStatus, bpKeys>>

evVars == <<evIn, evDone, evOut, evFailed>>

smVars == <<smCalc, smNatal, smTransit, smAspects, smSummary>>

gcVars == <<gcSwitch, gcPlanets, gcAngles, gcMatched, gcAspects, gcAgain, gcPc>>

emVars == <<emBodies, emAsc, emMc, emDone, emChart>>

frVars == <<frOp, frPositions, frAngles, frCusps, frGiven, frDone, frResult>>

ctVars == <<ctMatcher, ctOwner, ctAngle, ctFound>>

rsVars == <<rsCusps, rsLon, rsNumber>>

vars == <<aspVars, bldVars, hseVars, motVars, fmVars, srVars, lbVars, pkVars, bpVars, evVars, smVars, gcVars, emVars, frVars, ctVars, rsVars>>

exceptAsp == <<bldVars, hseVars, motVars, fmVars, srVars, lbVars, pkVars, bpVars, evVars, smVars, gcVars, emVars, frVars, ctVars, rsVars>>
exceptBld == <<aspVars, hseVars, motVars, fmVars, srVars, lbVars, pkVars, bpVars, evVars, smVars, gcVars, emVars, frVars, ctVars, rsVars>>
exceptHse == <<aspVars, bldVars, motVars, fmVars, srVars, lbVars, pkVars, bpVars, evVars, smVars, gcVars, emVars, frVars, ctVars, rsVars>>
exceptMot == <<aspVars, bldVars, hseVars, fmVars, srVars, lbVars, pkVars, bpVars, evVars, smVars, gcVars, emVars, frVars, ctVars, rsVars>>
exceptFm == <<aspVars, bldVars, hseVars, motVars, srVars, lbVars, pkVars, bpVars, evVars, smVars, gcVars, emVars, frVars, ctVars, rsVars>>
exceptSr == <<aspVars, bldVars, hseVars, motVars, fmVars, lbVars, pkVars, bpVars, evVars, smVars, gcVars, emVars, frVars, ctVars, rsVars>>
exceptPk == <<aspVars, bldVars, hseVars, motVars, fmVars, srVars, lbVars, bpVars, evVars, smVars, gcVars, emVars, frVars, ctVars, rsVars>>
exceptBp == <<aspVars, bldVars, hseVars, motVars, fmVars, srVars, lbVars, pkVars, evVars, smVars, gcVars, emVars, frVars, ctVars, rsVars>>
exceptEv == <<aspVars, bldVars, hseVars, motVars, fmVars, srVars, lbVars, pkVars, bpVars, smVars, gcVars, emVars, frVars, ctVars, rsVars>>
exceptSm == <<aspVars, bldVars, hseVars, motVars, fmVars, srVars, lbVars, pkVars, bpVars, evVars, gcVars, emVars, frVars, ctVars, rsVars>>
exceptGc == <<aspVars, bldVars, hseVars, motVars, fmVars, srVars, lbVars, pkVars, bpVars, evVars, smVars, emVars, frVars, ctVars, rsVars>>
exceptEm == <<aspVars, bldVars, hseVars, motVars, fmVars, srVars, lbVars, pkVars, bpVars, evVars, smVars, gcVars, frVars, ctVars, rsVars>>
exceptFr == <<aspVars, bldVars, hseVars, motVars, fmVars, srVars, lbVars, pkVars, bpVars, evVars, smVars, gcVars, emVars, ctVars, rsVars>>
exceptCt == <<aspVars, bldVars, hseVars, motVars, fmVars, srVars, lbVars, pkVars, bpVars, evVars, smVars, gcVars, emVars, frVars, rsVars>>
exceptRs == <<aspVars, bldVars, hseVars, motVars, fmVars, srVars, lbVars, pkVars, bpVars, evVars, smVars, gcVars, emVars, frVars, ctVars>>

(***************************************************************************)
(* Arithmetic helpers                                                      *)
(***************************************************************************)
Abs(x) == IF x < 0 THEN -x ELSE x

MinOf(S) == CHOOSE x \in S : \A y \in S : x <= y

\* 360 and 180 degrees, in millidegrees
Circle == 360000
HalfCircle == 180000

\* mathematical reduction into [0, Circle)
Norm(x) == x % Circle

(***************************************************************************)
(* Angular geometry                                                        *)
(***************************************************************************)
\* the difference taken without Math.abs
calculateAngleBetweenPlanets_noAbs(long1, long2) ==
    LET angle == long1 - long2
    IN  IF angle > HalfCircle THEN Circle - angle ELSE angle

calculateAngleBetweenPlanets(long1, long2) ==
    LET angle == Abs(long1 - long2)
    IN  IF angle > HalfCircle THEN Circle - angle ELSE angle

(***************************************************************************)
(* Aspect catalog and orb policy                                           *)
(***************************************************************************)
\* Object.entries order of this.transitAspects (this.aspects in synastry.js)
transitAspects ==
    << [key |-> "CONJUNCTION", name |-> "conjunction", angle |-> 0],
       [key |-> "OPPOSITION",  name |-> "opposition",  angle |-> 180000],
       [key |-> "TRINE",       name |-> "trine",       angle |-> 120000],
       [key |-> "SQUARE",      name |-> "square",      angle |-> 90000],
       [key |-> "SEXTILE",     name |-> "sextile",     angle |-> 60000] >>

majorAspects == {"conjunction", "opposition", "trine", "square", "sextile"}

OrbTable(outer, social, personal) ==
    [p \in outer \cup social \cup personal |->
        IF p \in outer THEN [major |-> 2000, minor |-> 1000]
        ELSE IF p \in social THEN [major |-> 1500, minor |-> 500]
        ELSE [major |-> 1000, minor |-> 500]]

\* this.transitOrbs of each calculator; the transit calculator keys it in upper case
transitOrbs(c) ==
    IF c = "transit"
    THEN OrbTable({"SATURN", "URANUS", "NEPTUNE", "PLUTO"}, {"JUPITER"},
                  {"SUN", "MOON", "MERCURY", "VENUS", "MARS",
                   "NORTH_NODE", "CHIRON", "LILITH"})
    ELSE OrbTable({"Saturn", "Uranus", "Neptune", "Pluto"}, {"Jupiter"},
                  {"Sun", "Moon", "Mercury", "Venus", "Mars",
                   "NNode", "SNode", "Chiron", "Lilith"})

defaultOrbs == [major |-> 1000, minor |-> 500]

getTransitOrb(c, transitPlanet, aspectName) ==
    LET planetOrbs == IF transitPlanet \in DOMAIN transitOrbs(c)
                      THEN transitOrbs(c)[transitPlanet] ELSE defaultOrbs
    IN  IF aspectName \in majorAspects THEN planetOrbs.major ELSE planetOrbs.minor

\* The second argument the matcher's loop hands to getTransitOrb: the entry's
\* name in the combined calculator, the entry's key in the other two.
orbArgument(c, entry) == IF c = "combined" THEN entry.name ELSE entry.key

NullAspect == [aspect |-> "null", orb |-> 0, targetAngle |-> 0]
PendingAspect == [aspect |-> "pending", orb |-> 0, targetAngle |-> 0]

\* the tolerance test off by one millidegree
firstMatch_widened(c, transitLong, natalLong, transitPlanet) ==
    LET angle == calculateAngleBetweenPlanets(transitLong, natalLong)
        hits == {i \in 1..Len(transitAspects) :
                    Abs(angle - transitAspects[i].angle)
                      <= getTransitOrb(c, transitPlanet,
                                       orbArgument(c, transitAspects[i])) + 1}
    IN  IF hits = {} THEN 0 ELSE MinOf(hits)

\* the catalog index the loop returns at, 0 when it falls through
firstMatch(c, transitLong, natalLong, transitPlanet) ==
    LET angle == calculateAngleBetweenPlanets(transitLong, natalLong)
        hits == {i \in 1..Len(transitAspects) :
                    Abs(angle - transitAspects[i].angle)
                      <= getTransitOrb(c, transitPlanet,
                                       orbArgument(c, transitAspects[i]))}
    IN  IF hits = {} THEN 0 ELSE MinOf(hits)

findTransitAspect(c, transitLong, natalLong, transitPlanet) ==
    LET angle == calculateAngleBetweenPlanets(transitLong, natalLong)
        i == firstMatch(c, transitLong, natalLong, transitPlanet)
    IN  IF i = 0 THEN NullAspect
        ELSE [aspect |-> transitAspects[i].name,
              orb |-> Abs(angle - transitAspects[i].angle),
              targetAngle |-> transitAspects[i].angle]

\* the tolerances the loop computed before it returned
tolerancesComputed(c, transitLong, natalLong, transitPlanet) ==
    LET i == firstMatch(c, transitLong, natalLong, transitPlanet)
        n == IF i = 0 THEN Len(transitAspects) ELSE i
    IN  [k \in 1..n |-> getTransitOrb(c, transitPlanet,
                                      orbArgument(c, transitAspects[k]))]

(***************************************************************************)
(* Motion classifier                                                       *)
(*                                                                         *)
(* A position is [name, longitude, longitudeSpeed, speedDefined].          *)
(* speedDefined = FALSE is a position object without a longitudeSpeed      *)
(* field (a chart angle, or a position of the transit calculator): every   *)
(* arithmetic result that reads it is NaN and every comparison with NaN    *)
(* is false.  Speeds are drawn as multiples of 24 so that speed / 24 is    *)
(* exact.                                                                  *)
(***************************************************************************)
HoursPerDay == 24

\* the % operator of JavaScript: the result takes the sign of the dividend
JsRem(x, m) == IF x >= 0 THEN x % m ELSE -((-x) % m)

\* the forward step of the first body: one hour in the combined calculator,
\* one day in the transit and synastry calculators
transitStep(c, speed) == IF c = "combined" THEN speed \div HoursPerDay ELSE speed

\* "closer or as close" instead of "strictly closer"
isTransitApplying_notStrict(c, transitPos, natalPos, targetAngle) ==
    IF ~transitPos.speedDefined THEN FALSE
    ELSE LET currentAngle == calculateAngleBetweenPlanets(transitPos.longitude,
                                                          natalPos.longitude)
             futureTransitLong ==
                 JsRem(transitPos.longitude + transitStep(c, transitPos.longitudeSpeed),
                       Circle)
             futureAngle == calculateAngleBetweenPlanets(futureTransitLong,
                                                         natalPos.longitude)
         IN  Abs(futureAngle - targetAngle) <= Abs(currentAngle - targetAngle)

\* the forward step taken by the size of the speed, its direction dropped
isTransitApplying_unsigned(c, transitPos, natalPos, targetAngle) ==
    IF ~transitPos.speedDefined THEN FALSE
    ELSE LET currentAngle == calculateAngleBetweenPlanets(transitPos.longitude,
                                                          natalPos.longitude)
             futureTransitLong ==
                 JsRem(transitPos.longitude
                           + Abs(transitStep(c, transitPos.longitudeSpeed)), Circle)
             futureAngle == calculateAngleBetweenPlanets(futureTransitLong,
                                                         natalPos.longitude)
         IN  Abs(futureAngle - targetAngle) < Abs(currentAngle - targetAngle)

\* the comparison turned round: "farther" instead of "closer"
isTransitApplying_farther(c, transitPos, natalPos, targetAngle) ==
    IF ~transitPos.speedDefined THEN FALSE
    ELSE LET currentAngle == calculateAngleBetweenPlanets(transitPos.longitude,
                                                          natalPos.longitude)
             futureTransitLong ==
                 JsRem(transitPos.longitude + transitStep(c, transitPos.longitudeSpeed),
                       Circle)
             futureAngle == calculateAngleBetweenPlanets(futureTransitLong,
                                                         natalPos.longitude)
         IN  Abs(futureAngle - targetAngle) > Abs(currentAngle - targetAngle)

isTransitApplying(c, transitPos, natalPos, targetAngle) ==
    IF ~transitPos.speedDefined THEN FALSE
    ELSE LET currentAngle == calculateAngleBetweenPlanets(transitPos.longitude,
                                                          natalPos.longitude)
             futureTransitLong ==
                 JsRem(transitPos.longitude + transitStep(c, transitPos.longitudeSpeed),
                       Circle)
             futureAngle == calculateAngleBetweenPlanets(futureTransitLong,
                                                         natalPos.longitude)
         IN  Abs(futureAngle - targetAngle) < Abs(currentAngle - targetAngle)

isNatalAspectApplying(planet1, planet2, aspectAngle) ==
    IF ~planet1.speedDefined \/ ~planet2.speedDefined THEN FALSE
    ELSE LET currentAngle == calculateAngleBetweenPlanets(planet1.longitude,
                                                          planet2.longitude)
             futureAngle == calculateAngleBetweenPlanets(
                 planet1.longitude + planet1.longitudeSpeed \div HoursPerDay,
                 planet2.longitude + planet2.longitudeSpeed \div HoursPerDay)
         IN  Abs(futureAngle - aspectAngle) < Abs(currentAngle - aspectAngle)

(***************************************************************************)
(* Natal catalog and matcher                                               *)
(***************************************************************************)
\* Object.entries order of this.aspects of the combined calculator
natalAspects ==
    << [name |-> "conjunction", angle |-> 0,      orb |-> 8000],
       [name |-> "opposition",  angle |-> 180000, orb |-> 8000],
       [name |-> "trine",       angle |-> 120000, orb |-> 8000],
       [name |-> "square",      angle |-> 90000,  orb |-> 8000],
       [name |-> "sextile",     angle |-> 60000,  orb |-> 6000] >>

\* the tolerance test made strict
findNatalAspect_strict(angle) ==
    LET hits == {i \in 1..Len(natalAspects) :
                    Abs(angle - natalAspects[i].angle) < natalAspects[i].orb}
    IN  IF hits = {} THEN 0 ELSE MinOf(hits)

\* index of the entry findNatalAspect returns, 0 for null
findNatalAspect(angle) ==
    LET hits == {i \in 1..Len(natalAspects) :
                    Abs(angle - natalAspects[i].angle) <= natalAspects[i].orb}
    IN  IF hits = {} THEN 0 ELSE MinOf(hits)

filterAspect(planet1, planet2, aspectName) ==
    ~((planet1 = "NNode" \/ planet2 = "NNode") /\ aspectName = "opposition")

\* parseFloat(x.toFixed(2)) of a non-negative value: to the nearest hundredth
\* of a degree, a half rounding up
toFixed2(x) == ((x + 5) \div 10) * 10

(***************************************************************************)
(* Pairwise aspect set builders                                            *)
(***************************************************************************)
RECURSIVE RowPairs(_, _, _)
RowPairs(i, j, n) ==
    IF j > n THEN << >> ELSE << <<i, j>> >> \o RowPairs(i, j + 1, n)

\* for (i = first..m) for (j = (triangular ? i + 1 : 1)..n), 1-based
RECURSIVE LoopPairs(_, _, _, _)
LoopPairs(i, m, n, triangular) ==
    IF i > m THEN << >>
    ELSE RowPairs(i, IF triangular THEN i + 1 ELSE 1, n)
         \o LoopPairs(i + 1, m, n, triangular)

NullRecord ==
    [planet1 |-> "", planet2 |-> "", aspect |-> "null", orb |-> 0, applying |-> FALSE]

\* the record one iteration of a loop of calculateNatalAspects pushes
natalRecord(p1, p2) ==
    LET angle == calculateAngleBetweenPlanets(p1.longitude, p2.longitude)
        i == findNatalAspect(angle)
    IN  IF i = 0 \/ ~filterAspect(p1.name, p2.name, natalAspects[i].name)
        THEN NullRecord
        ELSE [planet1 |-> p1.name, planet2 |-> p2.name,
              aspect |-> natalAspects[i].name,
              orb |-> toFixed2(Abs(angle - natalAspects[i].angle)),
              applying |-> isNatalAspectApplying(p1, p2, natalAspects[i].angle)]

Pushed(records) == SelectSeq(records, LAMBDA r : r.aspect # "null")

planetLoop(positions) == LoopPairs(1, Len(positions), Len(positions), TRUE)
angleLoop(positions, angles) == LoopPairs(1, Len(angles), Len(positions), TRUE)

calculateNatalAspects(positions, angles) ==
    LET pp == planetLoop(positions)
        ap == angleLoop(positions, angles)
    IN  Pushed([k \in 1..Len(pp) |->
                   natalRecord(positions[pp[k][1]], positions[pp[k][2]])])
        \o Pushed([k \in 1..Len(ap) |->
                   natalRecord(angles[ap[k][1]], positions[ap[k][2]])])

natalTested(positions, angles) ==
    LET pp == planetLoop(positions)
        ap == angleLoop(positions, angles)
    IN  [k \in 1..Len(pp) |-> <<positions[pp[k][1]].name, positions[pp[k][2]].name>>]
        \o [k \in 1..Len(ap) |-> <<angles[ap[k][1]].name, positions[ap[k][2]].name>>]

\* the record one iteration of a transit-like loop pushes
crossRecord(c, isTransit, roundOrb, tp, np) ==
    LET aspectData == findTransitAspect(c, tp.longitude, np.longitude, tp.name)
    IN  IF aspectData = NullAspect THEN NullRecord
        ELSE [planet1 |-> tp.name, planet2 |-> np.name,
              aspect |-> aspectData.aspect,
              orb |-> IF roundOrb THEN toFixed2(aspectData.orb) ELSE aspectData.orb,
              applying |-> IF isTransit
                           THEN isTransitApplying(c, tp, np, aspectData.targetAngle)
                           ELSE FALSE]

crossLoop(transitPositions, natalPositions) ==
    LoopPairs(1, Len(transitPositions), Len(natalPositions), FALSE)

crossTested(transitPositions, natalPositions) ==
    LET cp == crossLoop(transitPositions, natalPositions)
    IN  [k \in 1..Len(cp) |->
            <<transitPositions[cp[k][1]].name, natalPositions[cp[k][2]].name>>]

calculateAspectsOfTwoCharts(transitPositions, natalPositions, isTransit) ==
    LET cp == crossLoop(transitPositions, natalPositions)
    IN  Pushed([k \in 1..Len(cp) |->
                   crossRecord("combined", isTransit, TRUE,
                               transitPositions[cp[k][1]], natalPositions[cp[k][2]])])

\* Array.prototype.sort((a, b) => a.orb - b.orb): stable, ascending
RECURSIVE InsertByOrb(_, _)
InsertByOrb(sorted, r) ==
    IF sorted = << >> THEN << r >>
    ELSE IF sorted[Len(sorted)].orb <= r.orb THEN Append(sorted, r)
    ELSE Append(InsertByOrb(SubSeq(sorted, 1, Len(sorted) - 1), r),
                sorted[Len(sorted)])

RECURSIVE SortByOrb(_)
SortByOrb(list) ==
    IF list = << >> THEN << >>
    ELSE InsertByOrb(SortByOrb(SubSeq(list, 1, Len(list) - 1)), list[Len(list)])

\* calculateTransits of the transit calculator: the transit positions it
\* computes itself carry no longitudeSpeed
calculateTransits(natalPositions, transitPositions) ==
    LET cp == crossLoop(transitPositions, natalPositions)
    IN  SortByOrb(Pushed([k \in 1..Len(cp) |->
                   crossRecord("transit", TRUE, FALSE,
                               transitPositions[cp[k][1]], natalPositions[cp[k][2]])]))

(***************************************************************************)
(* House resolver                                                          *)
(***************************************************************************)
NumHouses == 12

\* the wrap branch written with "and": a house that crosses 0 Aries is never hit
houseLoop_andWrap(normalizedLong, cuspList) ==
    LET hits == {i \in 1..NumHouses :
                    LET currentCusp == cuspList[i]
                        nextCusp == cuspList[(i % NumHouses) + 1]
                    IN  IF nextCusp < currentCusp
                        THEN normalizedLong >= currentCusp /\ normalizedLong < nextCusp
                        ELSE normalizedLong >= currentCusp /\ normalizedLong < nextCusp}
    IN  IF hits = {} THEN 0 ELSE MinOf(hits)

\* the house at which the loop over i = 0..11 returns, 0 when it falls through
houseLoop(normalizedLong, cuspList) ==
    LET hits == {i \in 1..NumHouses :
                    LET currentCusp == cuspList[i]
                        nextCusp == cuspList[(i % NumHouses) + 1]
                    IN  IF nextCusp < currentCusp
                        THEN normalizedLong >= currentCusp \/ normalizedLong < nextCusp
                        ELSE normalizedLong >= currentCusp /\ normalizedLong < nextCusp}
    IN  IF hits = {} THEN 0 ELSE MinOf(hits)

determinePlanetHouse(planetLongitude, houseCusps) ==
    LET rem == JsRem(planetLongitude, Circle)
        normalizedLong == IF rem < 0 THEN rem + Circle ELSE rem
        i == houseLoop(normalizedLong, houseCusps)
    IN  IF i = 0 THEN [number |-> 1, fallback |-> TRUE]
        ELSE [number |-> i, fallback |-> FALSE]

(***************************************************************************)
(* Values the variables of a component keep while another one is checked   *)
(***************************************************************************)
AspectIdle ==
    /\ calc = "combined"
    /\ owner = "Sun"
    /\ lonA = 0
    /\ lonB = 0
    /\ found = PendingAspect
    /\ orbsTried = << >>
    /\ anglePair = << >>

BuildIdle ==
    /\ builder = "natal"
    /\ setA = << >>
    /\ setB = << >>
    /\ bDone = FALSE
    /\ aspects = << >>
    /\ tested = << >>

HouseIdle ==
    /\ cusps = << >>
    /\ hLon = 0
    /\ house = [number |-> 0, fallback |-> FALSE]

MotionIdle ==
    /\ mOp = "none"
    /\ mA = NullRecord
    /\ mB = NullRecord
    /\ mRec = NullRecord

NoMoment == [null |-> TRUE, time |-> 0]

MomentIdle ==
    /\ fmPc = "idle"
    /\ fmStart = 0
    /\ fmEnd = 0
    /\ fmPrec = 0
    /\ fmTruthy = {}
    /\ fmLow = 0
    /\ fmHigh = 0
    /\ fmResult = NoMoment
    /\ fmEvals = {}
    /\ fmSteps = 0

NoQuery == [ok |-> TRUE, jd |-> 0, diff |-> 0, speed |-> 0, met |-> FALSE]

SolarIdle ==
    /\ srPc = "idle"
    /\ srTarget = 0
    /\ srJD = 0
    /\ srI = 0
    /\ srQueries = 0
    /\ srLast = NoQuery
    /\ srResult = NoMoment

LinearIdle ==
    /\ lbBase = 0
    /\ lbSpeed = 0

NoPeak == [null |-> TRUE, invalid |-> FALSE, days |-> 0, ms |-> 0]

NoPosition == [longitude |-> 0, longitudeSpeed |-> 0, speedDefined |-> TRUE]

PeakIdle ==
    /\ pkCalc = "idle"
    /\ pkTransit = NoPosition
    /\ pkNatal = 0
    /\ pkTarget = 0
    /\ pkDone = FALSE
    /\ pkResult = NoPeak

BatchIdle ==
    /\ bpCalc = "idle"
    /\ bpOutcome = <<>>
    /\ bpStatus = "idle"
    /\ bpKeys = {}

NoEvent == [outcome |-> "null", from |-> 0, to |-> 0, exactNull |-> TRUE, exactTime |-> 0]

NoSearch == [kind |-> "none", planetId |-> 0, end |-> 0, cross |-> 0,
             failLo |-> 0, failHi |-> 0]

EventIdle ==
    /\ evIn = NoSearch
    /\ evDone = FALSE
    /\ evOut = NoEvent
    /\ evFailed = FALSE

EmptySummary ==
    [total |-> 0, applying |-> 0, separating |-> 0, exact |-> 0,
     byAspect |-> << >>, byTransitingPlanet |-> << >>, byNatalPlanet |-> << >>]

SummaryIdle ==
    /\ smCalc = "idle"
    /\ smNatal = << >>
    /\ smTransit = << >>
    /\ smAspects = << >>
    /\ smSummary = EmptySummary

ChartIdle ==
    /\ gcSwitch = FALSE
    /\ gcPlanets = << >>
    /\ gcAngles = << >>
    /\ gcMatched = << >>
    /\ gcAspects = << >>
    /\ gcAgain = << >>
    /\ gcPc = "idle"

NoChart == [houses |-> << >>, angles |-> << >>, planets |-> << >>, aspects |-> << >>]

EmitIdle ==
    /\ emBodies = << >>
    /\ emAsc = 0
    /\ emMc = 0
    /\ emDone = FALSE
    /\ emChart = NoChart

FrameIdle ==
    /\ frOp = "idle"
    /\ frPositions = << >>
    /\ frAngles = << >>
    /\ frCusps = << >>
    /\ frGiven = << >>
    /\ frDone = FALSE
    /\ frResult = << >>

CatalogIdle ==
    /\ ctMatcher = "natal"
    /\ ctOwner = "Sun"
    /\ ctAngle = 0
    /\ ctFound = 0 - 1

ResolverIdle ==
    /\ rsCusps = << >>
    /\ rsLon = 0
    /\ rsNumber = << >>

(***************************************************************************)
(* Inputs of the matcher                                                   *)
(***************************************************************************)
\* half-degree steps explored on either side of every catalog angle
MaxDelta == 5
HalfDegree == 500

Calculators == {"combined", "transit", "synastry"}

\* keys of the position maps: planet-table names, the derived SNode, the
\* chart angle AS merged in by addAnglesToPositions, and Juno (no orb entry)
Owners == {"Sun", "Jupiter", "Saturn", "Pluto", "NNode", "SNode", "Juno", "AS"}

BaseLongitudes == {0, 359000, 123456}

Deltas == {k * HalfDegree + e : k \in (-MaxDelta)..MaxDelta, e \in {-1, 0, 1}}

PartnerLongitudes(base) ==
    {Norm(base + transitAspects[i].angle + d) :
        i \in 1..Len(transitAspects), d \in Deltas}
    \cup {Norm(base + 30000), Norm(base + 150000)}

AspectInit ==
    /\ calc \in Calculators
    /\ owner \in Owners
    /\ lonA \in BaseLongitudes
    /\ lonB \in PartnerLongitudes(lonA)
    /\ found = PendingAspect
    /\ orbsTried = << >>
    /\ anglePair = << >>
    /\ BuildIdle /\ HouseIdle /\ MotionIdle /\ MomentIdle /\ SolarIdle /\ LinearIdle /\ PeakIdle /\ BatchIdle /\ EventIdle /\ SummaryIdle /\ ChartIdle /\ EmitIdle /\ FrameIdle /\ CatalogIdle /\ ResolverIdle

FindTransitAspect ==
    /\ found = PendingAspect
    /\ found' = findTransitAspect(calc, lonA, lonB, owner)
    /\ orbsTried' = tolerancesComputed(calc, lonA, lonB, owner)
    /\ UNCHANGED <<calc, owner, lonA, lonB, anglePair>>
    /\ UNCHANGED exceptAsp

CalculateAngleBetweenPlanets ==
    /\ anglePair = << >>
    /\ anglePair' = << calculateAngleBetweenPlanets(lonA, lonB),
                       calculateAngleBetweenPlanets(lonB, lonA) >>
    /\ UNCHANGED <<calc, owner, lonA, lonB, found, orbsTried>>
    /\ UNCHANGED exceptAsp

AspectNext == FindTransitAspect \/ CalculateAngleBetweenPlanets

SpecAspect == AspectInit /\ [][AspectNext]_vars

(***************************************************************************)
(* Claims about the matcher                                                *)
(***************************************************************************)
\* The major orb the orb table grants a body: 2 degrees for the four outer
\* planets, 1.5 for Jupiter, 1 for every other body (listed or not).
ClaimedMajorOrb(body) ==
    IF body \in {"Saturn", "Uranus", "Neptune", "Pluto"} THEN 2000
    ELSE IF body = "Jupiter" THEN 1500
    ELSE 1000

CatalogIndex == 1..Len(transitAspects)

DiffTo(i) == Abs(calculateAngleBetweenPlanets(lonA, lonB) - transitAspects[i].angle)

NearestIndex == CHOOSE i \in CatalogIndex : \A j \in CatalogIndex : DiffTo(i) <= DiffTo(j)

\* C1: findTransitAspect returns a match only if the angle between the two
\* longitudes is within the owner's tolerance of the matched catalog angle,
\* the orb it reports is exactly that difference, and it returns null
\* whenever even the nearest catalog angle is farther than the tolerance.
C1_OrbContainment ==
    found.aspect # "pending" =>
        /\ found.aspect # "null" =>
              \E i \in CatalogIndex :
                 /\ found.aspect = transitAspects[i].name
                 /\ found.targetAngle = transitAspects[i].angle
                 /\ DiffTo(i) <= ClaimedMajorOrb(owner)
                 /\ found.orb = DiffTo(i)
        /\ DiffTo(NearestIndex) > ClaimedMajorOrb(owner) => found = NullAspect

\* a match found exactly at the edge of a two-degree tolerance
C1_Witness ==
    /\ found.aspect = "trine"
    /\ found.orb = 2000
    /\ owner = "Saturn"

\* C2: for every owner and every catalog aspect the matcher applies the
\* body's major orb (2 / 1.5 / 1 degrees); the default is used only for
\* bodies absent from the table and the minor orb is never applied.
C2_MajorOrbApplied ==
    \A k \in DOMAIN orbsTried : orbsTried[k] = ClaimedMajorOrb(owner)

\* C6: the angle between two longitudes does not depend on the order of
\* the arguments and lies in [0, 180] degrees.
C6_AngleSymmetricBounded ==
    anglePair # << >> =>
        /\ anglePair[1] = anglePair[2]
        /\ anglePair[1] >= 0
        /\ anglePair[1] <= HalfCircle

\* the fold branch is taken: the raw difference exceeds 180 degrees
C6_Witness ==
    /\ anglePair # << >>
    /\ lonB - lonA > HalfCircle
    /\ anglePair[1] = Circle - (lonB - lonA)

(***************************************************************************)
(* The pairwise builders: inputs, operations, claims                       *)
(***************************************************************************)
\* number of bodies in the first and in the second position map
NumBodiesA == 3
NumBodiesB == 2

Builders == {"natal", "twoCharts", "transits"}

\* keys of a position map in the order calculatePlanetaryPositions inserts
\* them (bodies whose ephemeris query failed are absent)
BodyOrder == <<"Sun", "Saturn", "NNode", "Chiron", "Lilith", "Juno", "SNode">>
AngleOrder == <<"AS", "MC">>

\* daily speeds, multiples of 24 millidegrees
BodySpeed(name) ==
    IF name = "Sun" THEN 984
    ELSE IF name \in {"Saturn", "NNode", "SNode"} THEN -48
    ELSE 72

BuildLongitudes == {0, 700, 90200, 181000}

PositionMaps(names, n, withSpeed) ==
    {[k \in 1..n |-> [name |-> names[k], longitude |-> f[k],
                      longitudeSpeed |-> BodySpeed(names[k]),
                      speedDefined |-> withSpeed]] :
        f \in [1..n -> BuildLongitudes]}

BuildInit ==
    /\ builder \in Builders
    /\ setA \in PositionMaps(BodyOrder, NumBodiesA, builder # "transits")
    /\ setB \in IF builder = "natal"
                THEN PositionMaps(AngleOrder, Len(AngleOrder), FALSE)
                ELSE PositionMaps(BodyOrder, NumBodiesB, TRUE)
    /\ bDone = FALSE
    /\ aspects = << >>
    /\ tested = << >>
    /\ AspectIdle /\ HouseIdle /\ MotionIdle /\ MomentIdle /\ SolarIdle /\ LinearIdle /\ PeakIdle /\ BatchIdle /\ EventIdle /\ SummaryIdle /\ ChartIdle /\ EmitIdle /\ FrameIdle /\ CatalogIdle /\ ResolverIdle

CalculateNatalAspects ==
    /\ builder = "natal" /\ ~bDone
    /\ aspects' = calculateNatalAspects(setA, setB)
    /\ tested' = natalTested(setA, setB)
    /\ bDone' = TRUE
    /\ UNCHANGED <<builder, setA, setB>>
    /\ UNCHANGED exceptBld

CalculateAspectsOfTwoCharts ==
    /\ builder = "twoCharts" /\ ~bDone
    /\ \E isTransit \in BOOLEAN :
          aspects' = calculateAspectsOfTwoCharts(setA, setB, isTransit)
    /\ tested' = crossTested(setA, setB)
    /\ bDone' = TRUE
    /\ UNCHANGED <<builder, setA, setB>>
    /\ UNCHANGED exceptBld

CalculateTransits ==
    /\ builder = "transits" /\ ~bDone
    /\ aspects' = calculateTransits(setB, setA)
    /\ tested' = crossTested(setA, setB)
    /\ bDone' = TRUE
    /\ UNCHANGED <<builder, setA, setB>>
    /\ UNCHANGED exceptBld

BuildNext ==
    \/ CalculateNatalAspects
    \/ CalculateAspectsOfTwoCharts
    \/ CalculateTransits

SpecBuild == BuildInit /\ [][BuildNext]_vars

Count(seq, x) == Cardinality({k \in DOMAIN seq : seq[k] = x})

PairOf(r) == <<r.planet1, r.planet2>>

\* C3: calculateNatalAspects tests every unordered pair of distinct bodies
\* exactly once and every (angle, body) pair exactly once;
\* calculateAspectsOfTwoCharts tests every pair of setA x setB exactly once;
\* a tested pair contributes at most one aspect record.
C3_EveryPairTestedOnce ==
    bDone =>
        /\ builder = "natal" =>
              /\ \A i \in DOMAIN setA : \A j \in DOMAIN setA :
                    i < j => Count(tested, <<setA[i].name, setA[j].name>>)
                             + Count(tested, <<setA[j].name, setA[i].name>>) = 1
              /\ \A a \in DOMAIN setB : \A b \in DOMAIN setA :
                    Count(tested, <<setB[a].name, setA[b].name>>) = 1
        /\ builder = "twoCharts" =>
              \A a \in DOMAIN setA : \A b \in DOMAIN setB :
                    Count(tested, <<setA[a].name, setB[b].name>>) = 1
        /\ \A k \in DOMAIN aspects :
              /\ Count(tested, PairOf(aspects[k])) >= 1
              /\ Cardinality({m \in DOMAIN aspects :
                                 PairOf(aspects[m]) = PairOf(aspects[k])}) = 1

NodeOpposition(r) ==
    r.aspect = "opposition" /\ (r.planet1 = "NNode" \/ r.planet2 = "NNode")

\* C20: no aspect list returned by calculateNatalAspects or by
\* calculateAspectsOfTwoCharts contains an opposition in which either body
\* is the North Node.
C20_NoNodeOpposition ==
    (bDone /\ builder \in {"natal", "twoCharts"}) =>
        \A k \in DOMAIN aspects : ~NodeOpposition(aspects[k])

\* the part of C20 that calculateNatalAspects keeps
C20_NatalListFiltered ==
    (bDone /\ builder = "natal") =>
        \A k \in DOMAIN aspects : ~NodeOpposition(aspects[k])

\* position of a record's pair in the order the pairs were tested
TestedAt(r) == CHOOSE k \in DOMAIN tested : tested[k] = PairOf(r)

\* C4: the list a builder returns is in ascending orb order and records of
\* equal orb keep the order in which they were pushed.
C4_SortedByOrb ==
    bDone =>
        \A i \in DOMAIN aspects : \A j \in DOMAIN aspects :
            i < j =>
                \/ aspects[i].orb < aspects[j].orb
                \/ /\ aspects[i].orb = aspects[j].orb
                   /\ TestedAt(aspects[i]) < TestedAt(aspects[j])

(***************************************************************************)
(* The house resolver: inputs, operation, claims                           *)
(***************************************************************************)
\* number of evenly spread points of the circle the cusps are chosen among
HouseGrid == 14

SignWidth == 30000

GridPoints == {(k * Circle) \div HouseGrid : k \in 0..(HouseGrid - 1)}

RECURSIVE SortedSeq(_)
SortedSeq(S) ==
    IF S = {} THEN << >> ELSE << MinOf(S) >> \o SortedSeq(S \ {MinOf(S)})

Rotated(seq, r) == [i \in 1..Len(seq) |-> seq[((i - 1 + r) % Len(seq)) + 1]]

\* Equal houses from 0 Aries
EqualCusps == [i \in 1..NumHouses |-> (i - 1) * SignWidth]

\* Well-formed cusp sequences: 12 distinct longitudes, increasing going
\* forward from the first cusp, passing 0 Aries exactly once.
CuspSequences ==
    {Rotated(SortedSeq(S), r) :
        S \in {T \in SUBSET GridPoints : Cardinality(T) = NumHouses},
        r \in 0..(NumHouses - 1)}
    \cup {EqualCusps}

HouseLongitudes ==
    {Norm(g + e) : g \in GridPoints, e \in {-1, 0, 1}} \cup {45000, 359000, 359999}

HouseInit ==
    /\ cusps \in CuspSequences
    /\ hLon \in HouseLongitudes
    /\ house = [number |-> 0, fallback |-> FALSE]
    /\ AspectIdle /\ BuildIdle /\ MotionIdle /\ MomentIdle /\ SolarIdle /\ LinearIdle /\ PeakIdle /\ BatchIdle /\ EventIdle /\ SummaryIdle /\ ChartIdle /\ EmitIdle /\ FrameIdle /\ CatalogIdle /\ ResolverIdle

DeterminePlanetHouse ==
    /\ house.number = 0
    /\ house' = determinePlanetHouse(hLon, cusps)
    /\ UNCHANGED <<cusps, hLon>>
    /\ UNCHANGED exceptHse

SpecHouse == HouseInit /\ [][DeterminePlanetHouse]_vars

\* the span of house i, going forward from its cusp to the next one
InSpan(lon, i) ==
    ((lon - cusps[i]) % Circle) < ((cusps[(i % NumHouses) + 1] - cusps[i]) % Circle)

\* C5: for well-formed cusps and a longitude in [0, 360) the resolver returns
\* the one house whose span [cusp[i], cusp[i+1]) holds the longitude, never
\* through the fallback; with equal houses from 0 Aries that is
\* floor(longitude / 30) + 1.
C5_HousePartition ==
    house.number # 0 =>
        /\ house.number \in 1..NumHouses
        /\ ~house.fallback
        /\ InSpan(hLon, house.number)
        /\ \A i \in 1..NumHouses : InSpan(hLon, i) => i = house.number
        /\ cusps = EqualCusps => house.number = (hLon \div SignWidth) + 1

\* the wrap case of the equal-house scenario: 359 degrees lies in house 12
C5_Witness ==
    /\ cusps = EqualCusps
    /\ hLon = 359000
    /\ house = [number |-> 12, fallback |-> FALSE]

(***************************************************************************)
(* The motion classifier: inputs, operations, claims                       *)
(***************************************************************************)
MotionLongitudes == {0, 10, 15000, 359990}

\* offsets of the partner from an exact aspect, inside and outside the orbs
MotionOffsets == {-7000, -1500, -20, -5, 0, 5, 20, 1500}

\* daily speeds: stationary, slow, solar and lunar, direct and retrograde
MotionSpeeds == {0, 24, -24, 984, -984, 13200, -13200}

MotionPositions(name, angleName, lons) ==
    {[name |-> IF d THEN name ELSE angleName, longitude |-> l,
      longitudeSpeed |-> v, speedDefined |-> d] :
        l \in lons, v \in MotionSpeeds, d \in BOOLEAN}

MotionPartnerLongitudes(base) ==
    {Norm(base + transitAspects[i].angle + d) :
        i \in 1..Len(transitAspects), d \in MotionOffsets}

MotionInit ==
    /\ mOp = "none"
    /\ mA \in MotionPositions("Saturn", "AS", MotionLongitudes)
    /\ mB \in MotionPositions("Moon", "MC", MotionPartnerLongitudes(mA.longitude))
    /\ mRec = NullRecord
    /\ AspectIdle /\ BuildIdle /\ HouseIdle /\ MomentIdle /\ SolarIdle /\ LinearIdle /\ PeakIdle /\ BatchIdle /\ EventIdle /\ SummaryIdle /\ ChartIdle /\ EmitIdle /\ FrameIdle /\ CatalogIdle /\ ResolverIdle

\* one iteration of a loop of calculateNatalAspects
NatalPair ==
    /\ mOp = "none"
    /\ mOp' = "natal"
    /\ mRec' = natalRecord(mA, mB)
    /\ UNCHANGED <<mA, mB>>
    /\ UNCHANGED exceptMot

\* one iteration of calculateAspectsOfTwoCharts with isTransit
CombinedTransitPair ==
    /\ mOp = "none"
    /\ mOp' = "combined"
    /\ mRec' = crossRecord("combined", TRUE, TRUE, mA, mB)
    /\ UNCHANGED <<mA, mB>>
    /\ UNCHANGED exceptMot

\* one iteration of calculateTransits of the transit calculator
TransitPair ==
    /\ mOp = "none"
    /\ mOp' = "transit"
    /\ mRec' = crossRecord("transit", TRUE, FALSE, mA, mB)
    /\ UNCHANGED <<mA, mB>>
    /\ UNCHANGED exceptMot

MotionNext == NatalPair \/ CombinedTransitPair \/ TransitPair

SpecMotion == MotionInit /\ [][MotionNext]_vars

\* the angle between two points of the circle, whatever their representation
ArcBetween(x, y) ==
    LET d == (x - y) % Circle IN IF d > HalfCircle THEN Circle - d ELSE d

TargetOf(r) ==
    transitAspects[CHOOSE i \in CatalogIndex : transitAspects[i].name = r.aspect].angle

\* the step of the first body: an hour of its motion, a day in the transit calculator
StepOfFirst == IF mOp = "transit" THEN mA.longitudeSpeed
               ELSE mA.longitudeSpeed \div HoursPerDay

StepOfSecond == mB.longitudeSpeed \div HoursPerDay

Closer(futureArc, currentArc, target) ==
    Abs(futureArc - target) < Abs(currentArc - target)

\* the flag from stepping the first body only, the partner held fixed
FirstOnlyApplying ==
    Closer(ArcBetween(mA.longitude + StepOfFirst, mB.longitude),
           ArcBetween(mA.longitude, mB.longitude), TargetOf(mRec))

\* the flag from stepping both bodies
BothApplying ==
    Closer(ArcBetween(mA.longitude + StepOfFirst, mB.longitude + StepOfSecond),
           ArcBetween(mA.longitude, mB.longitude), TargetOf(mRec))

\* C7 as stated: the applying flag of every aspect comes from stepping the
\* first body only by its own signed speed, the partner's longitude held
\* fixed, and is true iff the stepped angle is strictly closer to the target.
C7_FirstBodyOnly ==
    (mRec.aspect # "null" /\ mA.speedDefined /\ mB.speedDefined)
        => mRec.applying = FirstOnlyApplying

\* C7 amended: the transit-like loops step the first body only (an hour of
\* its motion in the combined calculator, a day in the transit calculator);
\* the natal loop steps both bodies by an hour of their own motion; the flag
\* is true iff the stepped angle is strictly closer to the target, and false
\* whenever a speed it reads is missing.
C7_ApplyingBySteppedAngle ==
    mRec.aspect # "null" =>
        /\ mOp \in {"combined", "transit"} =>
              mRec.applying = (mA.speedDefined /\ FirstOnlyApplying)
        /\ mOp = "natal" =>
              mRec.applying = (mA.speedDefined /\ mB.speedDefined /\ BothApplying)

\* a retrograde first body closing in on a square across 0 Aries, its
\* partner moving too
C7_Witness ==
    /\ mOp = "combined"
    /\ mRec.aspect = "square"
    /\ mRec.applying
    /\ mA.longitudeSpeed < 0
    /\ mB.longitudeSpeed # 0
    /\ mA.longitude = 10

\* C25: when the current angle of the pair equals the target angle exactly,
\* isTransitApplying answers false (separating) whatever the non-zero speed
\* of the moving body is.
C25_ExactIsSeparating ==
    (/\ mOp \in {"combined", "transit"}
     /\ mRec.aspect # "null"
     /\ ArcBetween(mA.longitude, mB.longitude) = TargetOf(mRec)
     /\ mA.longitudeSpeed # 0)
        => ~mRec.applying

\* the body at 15 degrees, direct, its partner at 105 degrees: an exact square
C25_Witness ==
    /\ mOp = "combined"
    /\ mA.longitude = 15000 /\ mA.speedDefined /\ mA.longitudeSpeed = 984
    /\ mB.longitude = 105000
    /\ mRec.aspect = "square" /\ mRec.orb = 0
    /\ ~mRec.applying

\* the same body at the same longitude, its speed reversed
Reversed(p) == [p EXCEPT !.longitudeSpeed = 0 - p.longitudeSpeed]

\* what isTransitApplying answers for the pair with the first body reversed
ReversedApplying == isTransitApplying(mOp, Reversed(mA), mB, TargetOf(mRec))

DistanceFromExact == Abs(ArcBetween(mA.longitude, mB.longitude) - TargetOf(mRec))

MovingInexact ==
    /\ mOp \in {"combined", "transit"}
    /\ mRec.aspect # "null"
    /\ mA.speedDefined /\ mA.longitudeSpeed # 0
    /\ DistanceFromExact > 0

\* C27 as stated: for the same longitudes and target, the aspect not exact,
\* a body of speed -s gets the opposite isTransitApplying answer from the
\* body of speed +s, for every s > 0.
C27_ReversesForRetrograde ==
    MovingInexact => mRec.applying # ReversedApplying

\* C27 amended: the answers for +s and -s are opposite when the forward
\* step (an hour of motion in the combined calculator, a day in the transit
\* calculator) is shorter than twice the distance of the pair from the
\* exact aspect.
C27_ReversesWithinReach ==
    (MovingInexact /\ Abs(StepOfFirst) < 2 * DistanceFromExact)
        => mRec.applying # ReversedApplying

\* a slow retrograde body 0.02 degrees short of exact, a day's step
C27_Witness ==
    /\ mOp = "transit"
    /\ mRec.aspect # "null"
    /\ mA.longitudeSpeed = 0 - 24
    /\ mA.speedDefined
    /\ DistanceFromExact = 20
    /\ mRec.applying
    /\ ~ReversedApplying

(***************************************************************************)
(* findExactMoment: the bisection of the transit calculator                *)
(***************************************************************************)
MaxInstant == 5
MaxPrecisionMs == 2
MaxBisections == 6

\* instants on both sides of the epoch
Instants == (0 - 3)..MaxInstant

\* new Date(x) drops the fraction of x, towards zero
truncDate_unhalved(twice) == twice

truncDate(twice) == IF twice >= 0 THEN twice \div 2 ELSE 0 - ((0 - twice) \div 2)

\* the loop condition, one millisecond coarser
loopContinues_coarse(low, high, precisionMs) == high - low > precisionMs + 1

loopContinues(low, high, precisionMs) == high - low > precisionMs

checkFunction(date) == date \in fmTruthy

MomentInit ==
    /\ fmPc = "call"
    /\ fmStart \in Instants
    /\ fmEnd \in {t \in Instants : fmStart <= t}
    /\ fmPrec \in 0..MaxPrecisionMs
    /\ fmTruthy \in SUBSET Instants
    /\ fmLow = 0
    /\ fmHigh = 0
    /\ fmResult = NoMoment
    /\ fmEvals = {}
    /\ fmSteps = 0
    /\ AspectIdle /\ BuildIdle /\ HouseIdle /\ MotionIdle /\ SolarIdle /\ LinearIdle /\ PeakIdle /\ BatchIdle /\ EventIdle /\ SummaryIdle /\ ChartIdle /\ EmitIdle /\ FrameIdle /\ CatalogIdle /\ ResolverIdle

\* entry: the two checks before the loop
FindExactMomentEnter ==
    /\ fmPc = "call"
    /\ fmLow' = fmStart
    /\ fmHigh' = fmEnd
    /\ IF checkFunction(fmStart)
       THEN /\ fmResult' = [null |-> FALSE, time |-> fmStart]
            /\ fmEvals' = {fmStart}
            /\ fmPc' = "done"
       ELSE IF ~checkFunction(fmEnd)
       THEN /\ fmResult' = NoMoment
            /\ fmEvals' = {fmStart, fmEnd}
            /\ fmPc' = "done"
       ELSE /\ fmResult' = NoMoment
            /\ fmEvals' = {fmStart, fmEnd}
            /\ fmPc' = "loop"
    /\ UNCHANGED <<fmStart, fmEnd, fmPrec, fmTruthy, fmSteps>>
    /\ UNCHANGED exceptFm

\* one iteration of the while loop; the loop itself has no iteration limit,
\* only the count kept of its iterations stops at MaxBisections
FindExactMomentBisect ==
    /\ fmPc = "loop"
    /\ loopContinues(fmLow, fmHigh, fmPrec)
    /\ LET mid == truncDate(fmLow + fmHigh)
       IN  /\ fmEvals' = fmEvals \cup {mid}
           /\ IF checkFunction(mid)
              THEN fmHigh' = mid /\ fmLow' = fmLow
              ELSE fmLow' = mid /\ fmHigh' = fmHigh
    /\ fmSteps' = IF fmSteps < MaxBisections THEN fmSteps + 1 ELSE fmSteps
    /\ UNCHANGED <<fmPc, fmStart, fmEnd, fmPrec, fmTruthy, fmResult>>
    /\ UNCHANGED exceptFm

\* the loop condition fails: return low
FindExactMomentReturn ==
    /\ fmPc = "loop"
    /\ ~loopContinues(fmLow, fmHigh, fmPrec)
    /\ fmResult' = [null |-> FALSE, time |-> fmLow]
    /\ fmPc' = "done"
    /\ UNCHANGED <<fmStart, fmEnd, fmPrec, fmTruthy, fmLow, fmHigh, fmEvals, fmSteps>>
    /\ UNCHANGED exceptFm

MomentNext == FindExactMomentEnter \/ FindExactMomentBisect \/ FindExactMomentReturn

SpecMoment == MomentInit /\ [][MomentNext]_vars

\* C8: findExactMoment returns start without bisecting if the predicate is
\* true at start; otherwise it returns null if the predicate is false at
\* end; it evaluates the predicate only at instants inside [start, end] and
\* any non-null result lies inside [start, end].
C8_BracketContract ==
    /\ fmEvals \subseteq fmStart..fmEnd
    /\ fmPc = "done" =>
        /\ checkFunction(fmStart) =>
              /\ fmResult = [null |-> FALSE, time |-> fmStart]
              /\ fmSteps = 0
              /\ fmEvals = {fmStart}
        /\ (~checkFunction(fmStart) /\ ~checkFunction(fmEnd)) =>
              /\ fmResult.null
              /\ fmSteps = 0
        /\ ~fmResult.null => fmResult.time \in fmStart..fmEnd

\* a bisection across the epoch that returns an instant strictly inside
C8_Witness ==
    /\ fmPc = "done"
    /\ fmSteps >= 2
    /\ ~fmResult.null
    /\ fmStart < 0
    /\ fmStart < fmResult.time
    /\ fmResult.time < fmEnd

StepPredicate(c) == fmTruthy = {t \in Instants : t >= c}

\* C9: for a step predicate P(t) = (t >= c) with start < c <= end the
\* instant r returned by findExactMoment satisfies |c - r| <= precision.
C9_StepPrecision ==
    \A c \in Instants :
        (fmPc = "done" /\ StepPredicate(c) /\ fmStart < c /\ c <= fmEnd)
            => (~fmResult.null /\ Abs(c - fmResult.time) <= fmPrec)

\* a crossing found by bisection, the result one precision short of it
C9_Witness ==
    /\ fmPc = "done"
    /\ StepPredicate(3)
    /\ fmStart = 0 - 3
    /\ fmEnd = MaxInstant
    /\ fmPrec = 2
    /\ fmSteps >= 2
    /\ ~fmResult.null
    /\ fmResult.time < 3

(***************************************************************************)
(* findSolarReturnMoment: the solver of the combined calculator            *)
(***************************************************************************)
Million == 1000 * 1000
CircleMicro == 360 * Million
HalfCircleMicro == 180 * Million
tolerance == 10
minSunSpeed == 100
maxIterations == 20
SecondsPerDay == 24 * 60 * 60

\* the convergence test, with the bound included
withinTolerance_inclusive(longitudeDiff) == Abs(longitudeDiff) <= tolerance

withinTolerance(longitudeDiff) == Abs(longitudeDiff) < tolerance

\* targetLongitude - currentLongitude folded once
foldedDiff(targetLongitude, currentLongitude) ==
    LET longitudeDiff == targetLongitude - currentLongitude
    IN  IF longitudeDiff > HalfCircleMicro THEN longitudeDiff - CircleMicro
        ELSE IF longitudeDiff < 0 - HalfCircleMicro THEN longitudeDiff + CircleMicro
        ELSE longitudeDiff

\* longitudeDiff / sunSpeed in microdays, exact for the speeds drawn: a
\* divisor of a degree a day, or whole degrees a day dividing longitudeDiff
daysToTarget(longitudeDiff, sunSpeed) ==
    IF Abs(sunSpeed) > Million
    THEN longitudeDiff \div (sunSpeed \div Million)
    ELSE longitudeDiff * (Million \div sunSpeed)

\* the seconds are floored, as are the minutes
julianDayToDate_minutes(julianDay) ==
    [null |-> FALSE,
     time |-> LET perBlock == SecondsPerDay \div 100
                  block == Million \div 100
              IN  (((julianDay \div block) * perBlock
                      + ((julianDay % block) * perBlock) \div block) \div 60) * 60]

\* the Date of a Julian day: the seconds are floored
julianDayToDate(julianDay) ==
    [null |-> FALSE,
     time |-> LET perBlock == SecondsPerDay \div 100
                  block == Million \div 100
              IN  (julianDay \div block) * perBlock
                      + ((julianDay % block) * perBlock) \div block]

SolarTargets == {10, 120 * Million}

\* distances of the Sun from the target that the ephemeris may report
SolarResiduals == {0, 9, 0 - 9, 10, 0 - 15}

\* speeds in microdegrees per day: a degree a day, the smallest speed the
\* solver accepts, and one below it
SolarSpeeds == {Million, minSunSpeed, minSunSpeed - 1}

SunResults(target) ==
    {[rflagOk |-> TRUE, longitude |-> (target - d) % CircleMicro, longitudeSpeed |-> v] :
        d \in SolarResiduals, v \in SolarSpeeds}
    \cup {[rflagOk |-> FALSE, longitude |-> 0, longitudeSpeed |-> 0]}

SolarInit ==
    /\ srPc = "loop"
    /\ srTarget \in SolarTargets
    /\ srJD = 0
    /\ srI = 0
    /\ srQueries = 0
    /\ srLast = NoQuery
    /\ srResult = NoMoment
    /\ AspectIdle /\ BuildIdle /\ HouseIdle /\ MotionIdle /\ MomentIdle /\ LinearIdle /\ PeakIdle /\ BatchIdle /\ EventIdle /\ SummaryIdle /\ ChartIdle /\ EmitIdle /\ FrameIdle /\ CatalogIdle /\ ResolverIdle

\* the body of the for loop, given what swe_calc_ut returned
SolarStep(result) ==
    LET longitudeDiff == foldedDiff(srTarget, result.longitude)
        sunSpeed == result.longitudeSpeed
        met == result.rflagOk /\ withinTolerance(longitudeDiff)
    IN  /\ srQueries' = srQueries + 1
        /\ srLast' = [ok |-> result.rflagOk, jd |-> srJD,
                      diff |-> IF result.rflagOk THEN longitudeDiff ELSE 0,
                      speed |-> sunSpeed, met |-> met]
        /\ IF ~result.rflagOk
           THEN srPc' = "threw" /\ UNCHANGED <<srJD, srI, srResult>>
           ELSE IF met
           THEN /\ srPc' = "returned"
                /\ srResult' = julianDayToDate(srJD)
                /\ UNCHANGED <<srJD, srI>>
           ELSE IF Abs(sunSpeed) < minSunSpeed
           THEN srPc' = "threw" /\ UNCHANGED <<srJD, srI, srResult>>
           ELSE /\ srJD' = srJD + daysToTarget(longitudeDiff, sunSpeed)
                /\ srI' = srI + 1
                /\ UNCHANGED <<srPc, srResult>>

\* one iteration of the for loop
SolarIterate ==
    /\ srPc = "loop"
    /\ srI < maxIterations
    /\ \E result \in SunResults(srTarget) : SolarStep(result)
    /\ UNCHANGED srTarget
    /\ UNCHANGED exceptSr

\* the loop ran out: the estimate it would have queried next is returned
SolarGiveUp ==
    /\ srPc = "loop"
    /\ srI >= maxIterations
    /\ srPc' = "returned"
    /\ srResult' = julianDayToDate(srJD)
    /\ UNCHANGED <<srTarget, srJD, srI, srQueries, srLast>>
    /\ UNCHANGED exceptSr

SolarNext == SolarIterate \/ SolarGiveUp

SpecSolar == SolarInit /\ [][SolarNext]_vars

SolarEnded == srPc \in {"returned", "threw"}

\* C10 as stated: at most 20 queries; the solver returns as soon as an
\* estimate is within 1e-5 degrees; if no evaluated estimate is, it returns
\* the last estimate as a date and raises no error.
C10_NeverAnError ==
    /\ srQueries <= maxIterations
    /\ (srPc = "loop") => ~srLast.met
    /\ (SolarEnded /\ srLast.met) =>
          (srPc = "returned" /\ srResult = julianDayToDate(srLast.jd))
    /\ (SolarEnded /\ ~srLast.met) =>
          (srPc = "returned" /\ srResult = julianDayToDate(srJD))

\* C10 amended: at most 20 queries; the solver returns the queried estimate
\* as soon as it is within 1e-5 degrees; it raises an error when a query
\* fails or when an estimate outside the tolerance comes with a speed below
\* 1e-4 degrees a day; otherwise, after 20 queries outside the tolerance, it
\* returns the estimate it would have queried next.
C10_SolverOutcome ==
    /\ srQueries <= maxIterations
    /\ (srPc = "loop") => ~srLast.met
    /\ (SolarEnded /\ srLast.met) =>
          /\ srPc = "returned"
          /\ srResult = julianDayToDate(srLast.jd)
          /\ Abs(srLast.diff) < tolerance
    /\ (SolarEnded /\ ~srLast.met) =>
          IF ~srLast.ok \/ Abs(srLast.speed) < minSunSpeed
          THEN srPc = "threw" /\ srResult.null
          ELSE /\ srPc = "returned"
               /\ srQueries = maxIterations
               /\ srResult = julianDayToDate(srLast.jd
                                 + daysToTarget(srLast.diff, srLast.speed))

\* twenty estimates outside the tolerance, the last at the smallest accepted
\* speed: a date far from the last estimate queried is returned
C10_Witness ==
    /\ srPc = "returned"
    /\ srQueries = maxIterations
    /\ ~srLast.met
    /\ srLast.speed = minSunSpeed
    /\ srResult # julianDayToDate(srLast.jd)

(***************************************************************************)
(* findSolarReturnMoment against a body of constant speed                  *)
(***************************************************************************)
MaxOffset == 4

\* speeds in microdegrees a day: solar, retrograde, a week's degrees, lunar,
\* the slowest the solver accepts, and one below it
LinearSpeeds == {Million, 0 - Million, 7 * Million, 13 * Million,
                 minSunSpeed, minSunSpeed - 1}

\* the distance of the target ahead of the body at the first guess; the
\* multiples divide by every whole speed drawn
LinearOffsets == {91 * j : j \in (0 - MaxOffset)..MaxOffset} \cup {9, 0 - 9}

\* how far the body has moved, microdays after the starting instant
advance(speed, julianDay) ==
    IF Abs(speed) > Million
    THEN (speed \div Million) * julianDay
    ELSE julianDay \div (Million \div speed)

\* what swe_calc_ut answers for the body
linearSun(julianDay) ==
    [rflagOk |-> TRUE,
     longitude |-> (lbBase + advance(lbSpeed, julianDay)) % CircleMicro,
     longitudeSpeed |-> lbSpeed]

LinearInit ==
    /\ srPc = "loop"
    /\ srTarget \in SolarTargets
    /\ srJD = 0
    /\ srI = 0
    /\ srQueries = 0
    /\ srLast = NoQuery
    /\ srResult = NoMoment
    /\ lbSpeed \in LinearSpeeds
    /\ lbBase \in {(srTarget - d) % CircleMicro : d \in LinearOffsets}
    /\ AspectIdle /\ BuildIdle /\ HouseIdle /\ MotionIdle /\ MomentIdle /\ PeakIdle /\ BatchIdle /\ EventIdle /\ SummaryIdle /\ ChartIdle /\ EmitIdle /\ FrameIdle /\ CatalogIdle /\ ResolverIdle

\* one iteration of the for loop, or the return after it
LinearSolve ==
    /\ srPc = "loop"
    /\ IF srI < maxIterations
       THEN SolarStep(linearSun(srJD))
       ELSE /\ srPc' = "returned"
            /\ srResult' = julianDayToDate(srJD)
            /\ UNCHANGED <<srJD, srI, srQueries, srLast>>
    /\ UNCHANGED <<srTarget, lbVars>>
    /\ UNCHANGED exceptSr

SpecLinear == LinearInit /\ [][LinearSolve]_vars

\* the time between the Date returned and searchJD, in 1/864 microdays
\* (1/10000 second): the seconds of searchJD within its hundredth of a day,
\* less those of the Date
DroppedFraction ==
    (srJD % 10000) * 864 - (srResult.time - (srJD \div 10000) * 864) * 10000

\* speed as a fraction of whole degrees a day
SpeedNum == IF Abs(lbSpeed) > Million THEN lbSpeed \div Million
            ELSE IF lbSpeed < 0 THEN 0 - 1 ELSE 1
SpeedDen == IF Abs(lbSpeed) > Million THEN 1 ELSE Million \div Abs(lbSpeed)

\* the body's longitude at the Date returned, less the target, folded, in
\* 1/(864 * SpeedDen) microdegrees: the longitude at searchJD less what the
\* body moves in the time dropped
ErrorAtDate ==
    864 * SpeedDen * foldedDiff((lbBase + advance(lbSpeed, srJD)) % CircleMicro, srTarget)
        - SpeedNum * DroppedFraction

WithinClaimed == Abs(ErrorAtDate) <= 100 * 864 * SpeedDen

\* C11 as stated: for a body of any constant non-zero speed, any target and
\* any first guess, the longitude at the moment returned is within 1e-4
\* degrees of the target.
C11_AnySpeedConverges ==
    srPc = "returned" => WithinClaimed

\* C11 amended: for a body of constant speed between 1e-4 and 7 degrees a
\* day in magnitude the solver returns a moment, after at most two queries,
\* at which the body is within 1e-4 degrees of the target; below 1e-4
\* degrees a day it raises an error unless the first guess is within the
\* tolerance.
C11_SlowBodyConverges ==
    /\ (srPc = "returned" /\ Abs(lbSpeed) <= 7 * Million) =>
          (WithinClaimed /\ srQueries <= 2)
    /\ srPc = "threw" => Abs(lbSpeed) < minSunSpeed
    /\ srQueries <= 2

\* a week's degrees a day: a Newton step, then most of a second dropped
C11_Witness ==
    /\ srPc = "returned"
    /\ lbSpeed = 7 * Million
    /\ srQueries = 2
    /\ DroppedFraction > 8000

\* C29: for any predicate, monotone or not, that is false at start and
\* true at end, the loop keeps the predicate false at low and true at high
\* with start <= low < high <= end; a result other than null and start is an
\* instant at which the predicate is false, and the predicate is true at
\* some instant no more than the precision later.
C29_BracketKept ==
    /\ fmPc = "loop" =>
          /\ ~checkFunction(fmLow) /\ checkFunction(fmHigh)
          /\ fmStart <= fmLow /\ fmLow < fmHigh /\ fmHigh <= fmEnd
    /\ (fmPc = "done" /\ ~fmResult.null /\ fmResult.time # fmStart) =>
          /\ ~checkFunction(fmResult.time)
          /\ \E t \in fmTruthy :
                fmResult.time < t /\ t <= fmResult.time + fmPrec

\* a predicate that is true, false and true again inside the window, and a
\* result past start
C29_Witness ==
    /\ fmPc = "done" /\ ~fmResult.null
    /\ fmResult.time > fmStart
    /\ fmSteps >= 2
    /\ \E t1 \in fmStart..fmEnd : \E t2 \in fmStart..fmEnd :
          t1 < t2 /\ checkFunction(t1) /\ ~checkFunction(t2)

(***************************************************************************)
(* findExactMoment: termination                                            *)
(***************************************************************************)
\* the loop is scheduled as long as its condition holds
SpecMomentFair == SpecMoment /\ WF_vars(MomentNext)

RECURSIVE Halvings(_, _, _)
\* the least n with precision * 2^n >= range, for precision > 0
Halvings(range, precision, n) ==
    IF precision >= range THEN n ELSE Halvings(range, 2 * precision, n + 1)

\* ceil(log2((end - start) / precision)), 0 for an empty range
StepBound == IF fmPrec > 0 THEN Halvings(fmEnd - fmStart, fmPrec, 0) ELSE 0

\* C12: findExactMoment terminates for every start <= end, every predicate
\* and every non-negative precision, after at most
\* ceil(log2((end - start) / precision)) bisection steps.
C12_Terminates ==
    /\ <>(fmPc = "done")
    /\ [](fmPrec > 0 => fmSteps <= StepBound)

\* with a precision of a millisecond or more the loop ends within the bound
C12_PositivePrecisionBound ==
    fmPrec > 0 => (fmSteps <= StepBound /\ fmSteps < MaxBisections)

(***************************************************************************)
(* estimatePeakDate: the peak estimator of the combined and the transit    *)
(* calculator                                                              *)
(***************************************************************************)
stationarySpeed == 1000
MsPerDay == 24 * 60 * 60 * 1000

\* 24 * 60 * 60 * 1000 taken a factor at a time, so that no product of the
\* long division below leaves the machine integers
msFactors == <<24, 60, 60, 10, 10, 10>>

RECURSIVE longDivide(_, _, _, _)
\* [q, r]: the whole milliseconds in r / speed days, and what is left over
longDivide(q, r, speed, k) ==
    IF k > Len(msFactors) THEN [q |-> q, r |-> r]
    ELSE longDivide(q * msFactors[k] + (r * msFactors[k]) \div speed,
                    (r * msFactors[k]) % speed, speed, k + 1)

\* the bound on |daysToExact|, the stricter comparison
peakBound(c) == IF c = "combined" THEN 365 * 5 ELSE 365

\* |daysToExact| >= bound instead of > bound
tooFar_inclusive(c, magnitude, speed) ==
    magnitude * 1000 >= peakBound(c) * speed

\* |daysToExact| > bound, for a magnitude in millidegrees and a positive
\* speed in microdegrees a day
tooFar(c, magnitude, speed) ==
    LET days == (magnitude * 1000) \div speed
        rest == (magnitude * 1000) % speed
    IN  days > peakBound(c) \/ (days = peakBound(c) /\ rest > 0)

\* targetAngle - currentAngle, folded once
adjustedDiff(transitLong, natalLong, targetAngle) ==
    LET currentAngle == calculateAngleBetweenPlanets(transitLong, natalLong)
        angleDifference == targetAngle - currentAngle
    IN  IF Abs(angleDifference) > HalfCircle
        THEN IF angleDifference > 0 THEN angleDifference - Circle
             ELSE angleDifference + Circle
        ELSE angleDifference

\* new Date(currentDate.getTime() + daysToExact * 24 * 60 * 60 * 1000): the
\* fraction of a millisecond is dropped from the time value, which is positive
peakDate(diff, speed) ==
    LET magnitude == Abs(diff) * 1000
        s == Abs(speed)
        days == magnitude \div s
        part == longDivide(0, magnitude % s, s, 1)
        forward == (diff >= 0) = (speed > 0)
        short == part.q + (IF part.r > 0 THEN 1 ELSE 0)
    IN  IF forward \/ magnitude = 0
        THEN [null |-> FALSE, invalid |-> FALSE, days |-> days, ms |-> part.q]
        ELSE IF short = 0
        THEN [null |-> FALSE, invalid |-> FALSE, days |-> 0 - days, ms |-> 0]
        ELSE [null |-> FALSE, invalid |-> FALSE, days |-> 0 - days - 1,
              ms |-> MsPerDay - short]

InvalidDate == [null |-> FALSE, invalid |-> TRUE, days |-> 0, ms |-> 0]

\* a missing longitudeSpeed is NaN: both comparisons are false and the Date
\* is built from NaN
estimatePeakDate(c, transitPos, natalLong, targetAngle) ==
    IF ~transitPos.speedDefined THEN InvalidDate
    ELSE IF Abs(transitPos.longitudeSpeed) < stationarySpeed THEN NoPeak
    ELSE LET diff == adjustedDiff(transitPos.longitude, natalLong, targetAngle)
         IN  IF tooFar(c, Abs(diff), Abs(transitPos.longitudeSpeed)) THEN NoPeak
             ELSE peakDate(diff, transitPos.longitudeSpeed)

PeakNatals == {0, 350000}

\* how far the moving body is from the exact aspect
PeakOffsets == {0, 365, 0 - 365, 366, 0 - 366, 1500, 0 - 1500, 1825, 0 - 1825,
                1826, 0 - 1826, 5000, 0 - 5000}

\* microdegrees a day: still, just under and at the stationary threshold,
\* retrograde, solar
PeakSpeeds == {0, stationarySpeed - 1, stationarySpeed, 0 - stationarySpeed,
               984000, Million, 0 - Million}

PeakPositions(natal, target) ==
    {[longitude |-> Norm(natal + side * target + d), longitudeSpeed |-> v,
      speedDefined |-> TRUE] :
        side \in {1, 0 - 1}, d \in PeakOffsets, v \in PeakSpeeds}
    \cup {[longitude |-> Norm(natal + target), longitudeSpeed |-> 0,
           speedDefined |-> FALSE]}

PeakInit ==
    /\ pkCalc = "idle"
    /\ pkNatal \in PeakNatals
    /\ pkTarget \in {transitAspects[i].angle : i \in 1..Len(transitAspects)}
    /\ pkTransit \in PeakPositions(pkNatal, pkTarget)
    /\ pkDone = FALSE
    /\ pkResult = NoPeak
    /\ AspectIdle /\ BuildIdle /\ HouseIdle /\ MotionIdle /\ MomentIdle /\ SolarIdle /\ LinearIdle /\ BatchIdle /\ EventIdle /\ SummaryIdle /\ ChartIdle /\ EmitIdle /\ FrameIdle /\ CatalogIdle /\ ResolverIdle

EstimatePeakDate ==
    /\ ~pkDone
    /\ \E c \in {"combined", "transit"} :
        /\ pkCalc' = c
        /\ pkResult' = estimatePeakDate(c, pkTransit, pkNatal, pkTarget)
    /\ pkDone' = TRUE
    /\ UNCHANGED <<pkTransit, pkNatal, pkTarget>>
    /\ UNCHANGED exceptPk

SpecPeak == PeakInit /\ [][EstimatePeakDate]_vars

\* targetAngle less the angle between the two longitudes
PeakDiff == pkTarget - ArcBetween(pkTransit.longitude, pkNatal)

PeakMagnitude == Abs(PeakDiff) * 1000

PeakSpeed == Abs(pkTransit.longitudeSpeed)

PeakForward == (PeakDiff >= 0) = (pkTransit.longitudeSpeed > 0)

\* the day the Date falls in is the day asOf + angleDiff / speed falls in
InDayOfQuotient ==
    IF PeakForward
    THEN /\ pkResult.days * PeakSpeed <= PeakMagnitude
         /\ PeakMagnitude < (pkResult.days + 1) * PeakSpeed
    ELSE /\ (0 - pkResult.days) * PeakSpeed >= PeakMagnitude
         /\ PeakMagnitude > (0 - pkResult.days - 1) * PeakSpeed

\* angleDiff / speed days to the millisecond, where it is a whole number of
\* them: at 0.001 degrees a day a millidegree takes a day, at a degree a day
\* it takes 86400 ms
ToTheMillisecond ==
    LET whole == IF PeakSpeed = stationarySpeed THEN Abs(PeakDiff)
                 ELSE Abs(PeakDiff) \div 1000
        ms == IF PeakSpeed = stationarySpeed THEN 0
              ELSE (Abs(PeakDiff) % 1000) * 86400
    IN  PeakSpeed \in {stationarySpeed, Million} =>
          IF PeakForward \/ ms = 0
          THEN pkResult.days = (IF PeakForward THEN whole ELSE 0 - whole)
               /\ pkResult.ms = ms
          ELSE pkResult.days = 0 - whole - 1 /\ pkResult.ms = MsPerDay - ms

\* C13: estimatePeakDate returns null when |speed| < 0.001 degrees a day,
\* null when |daysToExact| exceeds the bound (365 days, 5 * 365 in the
\* combined calculator), and otherwise exactly asOf + daysToExact days with
\* daysToExact = angleDiff / speed.
C13_PeakOutcomes ==
    (pkDone /\ pkTransit.speedDefined) =>
        IF PeakSpeed < stationarySpeed THEN pkResult = NoPeak
        ELSE IF PeakMagnitude > peakBound(pkCalc) * PeakSpeed THEN pkResult = NoPeak
        ELSE /\ ~pkResult.null
             /\ ~pkResult.invalid
             /\ pkResult.ms \in 0..(MsPerDay - 1)
             /\ InDayOfQuotient
             /\ ToTheMillisecond

\* a retrograde body exactly a year from the exact aspect: still reported
C13_Witness ==
    /\ pkDone
    /\ pkCalc = "transit"
    /\ pkTransit.longitudeSpeed = 0 - stationarySpeed
    /\ ~pkResult.null
    /\ pkResult.days = 365
    /\ pkResult.ms = 0

\* C14: angleDiff comes from the signed separation of the two longitudes, so
\* that moving the body by speed * daysToExact = angleDiff brings the pair
\* exactly to the target angle.
C14_MovesOntoTarget ==
    (pkDone /\ ~pkResult.null /\ ~pkResult.invalid) =>
        ArcBetween(pkTransit.longitude
                       + adjustedDiff(pkTransit.longitude, pkNatal, pkTarget),
                   pkNatal) = pkTarget

(***************************************************************************)
(* calculatePlanetaryPositions: the batch of ephemeris queries             *)
(***************************************************************************)
\* the planets table, in key order: the first bodies, the node, one after it
planets(c) ==
    IF c = "combined" THEN <<"Sun", "Moon", "Saturn", "NNode", "Chiron">>
    ELSE <<"SUN", "MOON", "SATURN", "NORTH_NODE", "CHIRON">>

NumPlanets == Len(planets("combined"))

\* only the combined calculator wraps the query in try / catch
catchesPerBody(c) == c = "combined"

RECURSIVE positionsLoop(_, _, _, _)
\* the for loop from body i on: [threw, keys]
positionsLoop(c, outcome, i, keys) ==
    IF i > Len(outcome) THEN [threw |-> FALSE, keys |-> keys]
    ELSE IF outcome[i] = "throw" /\ ~catchesPerBody(c)
         THEN [threw |-> TRUE, keys |-> {}]
    ELSE IF outcome[i] = "ok"
         THEN positionsLoop(c, outcome, i + 1, keys \cup {planets(c)[i]})
    ELSE positionsLoop(c, outcome, i + 1, keys)

calculatePlanetaryPositions(c, outcome) ==
    LET loop == positionsLoop(c, outcome, 1, {})
    IN  IF loop.threw THEN loop
        ELSE IF c = "combined" /\ "NNode" \in loop.keys
        THEN [threw |-> FALSE, keys |-> loop.keys \cup {"SNode"}]
        ELSE loop

BatchInit ==
    /\ bpCalc = "idle"
    /\ bpOutcome \in [1..NumPlanets -> {"ok", "flag", "throw"}]
    /\ bpStatus = "call"
    /\ bpKeys = {}
    /\ AspectIdle /\ BuildIdle /\ HouseIdle /\ MotionIdle /\ MomentIdle /\ SolarIdle /\ LinearIdle /\ PeakIdle /\ EventIdle /\ SummaryIdle /\ ChartIdle /\ EmitIdle /\ FrameIdle /\ CatalogIdle /\ ResolverIdle

CalculatePlanetaryPositions ==
    /\ bpStatus = "call"
    /\ \E c \in {"combined", "transit2"} :
        LET r == calculatePlanetaryPositions(c, bpOutcome)
        IN  /\ bpCalc' = c
            /\ bpStatus' = IF r.threw THEN "threw" ELSE "returned"
            /\ bpKeys' = r.keys
    /\ UNCHANGED bpOutcome
    /\ UNCHANGED exceptBp

SpecBatch == BatchInit /\ [][CalculatePlanetaryPositions]_vars

Succeeded == {planets(bpCalc)[i] : i \in {j \in 1..NumPlanets : bpOutcome[j] = "ok"}}

\* C15: whichever bodies fail, by flag or by a thrown error,
\* calculatePlanetaryPositions returns normally with exactly the other
\* bodies as keys, plus SNode iff NNode succeeded.
C15_FailuresSkipped ==
    bpStatus \in {"returned", "threw"} =>
        /\ bpStatus = "returned"
        /\ bpKeys = Succeeded \cup (IF "NNode" \in Succeeded THEN {"SNode"} ELSE {})

(***************************************************************************)
(* checkPlanetSignChange and checkPlanetRetrogradeChange: the searches     *)
(* that hand a predicate to findExactMoment                                *)
(***************************************************************************)
defaultPrecisionMs == 1 * 60 * 1000

\* swe_calc_ut at an instant (milliseconds after startDate): the flag, and
\* the sign (or the retrograde state) read from the result; the body changes
\* from 0 to 1 at the instant cross
queryFails(in, t) == in.failLo <= t /\ t <= in.failHi

stateAt(in, t) == IF t >= in.cross THEN 1 ELSE 0

\* the callback handed to findExactMoment
eventCheck(in, t, endState) ==
    IF queryFails(in, t) THEN FALSE ELSE stateAt(in, t) = endState

RECURSIVE bisectLoop(_, _, _, _, _)
\* the while loop of findExactMoment: [low, probedFailure]
bisectLoop(in, endState, low, high, probedFailure) ==
    IF ~loopContinues(low, high, defaultPrecisionMs)
    THEN [low |-> low, probedFailure |-> probedFailure]
    ELSE LET mid == truncDate(low + high)
         IN  IF eventCheck(in, mid, endState)
             THEN bisectLoop(in, endState, low, mid,
                             probedFailure \/ queryFails(in, mid))
             ELSE bisectLoop(in, endState, mid, high,
                             probedFailure \/ queryFails(in, mid))

\* findExactMoment(startDate, endDate, callback): [null, time, probedFailure]
findExactMoment(in, endState) ==
    IF eventCheck(in, 0, endState)
    THEN [null |-> FALSE, time |-> 0, probedFailure |-> FALSE]
    ELSE IF ~eventCheck(in, in.end, endState)
    THEN [null |-> TRUE, time |-> 0, probedFailure |-> FALSE]
    ELSE LET r == bisectLoop(in, endState, 0, in.end, FALSE)
         IN  [null |-> FALSE, time |-> r.low, probedFailure |-> r.probedFailure]

\* both searches: [out, failed]
checkPlanetChange(in) ==
    IF in.planetId = 0 THEN [out |-> NoEvent, failed |-> FALSE]
    ELSE IF queryFails(in, 0) \/ queryFails(in, in.end)
    THEN [out |-> NoEvent, failed |-> TRUE]
    ELSE LET startState == stateAt(in, 0)
             endState == stateAt(in, in.end)
         IN  IF startState # endState
             THEN LET exactMoment == findExactMoment(in, endState)
                  IN  [out |-> [outcome |-> "event", from |-> startState,
                                to |-> endState, exactNull |-> exactMoment.null,
                                exactTime |-> exactMoment.time],
                       failed |-> exactMoment.probedFailure]
             ELSE [out |-> NoEvent, failed |-> FALSE]

EventEnds == {8 * 60 * 1000, 24 * 60 * 60 * 1000}

\* the change falls before the window, at its first millisecond, inside it
\* (by the fraction of the window given in eighths), at its end or after it
EventCrossings(end) ==
    {0 - 1, 1, end, end + 1} \cup {(end \div 8) * k + 7 : k \in {1, 3, 4, 6}}

\* the stretch of time for which the ephemeris has no data: none, the
\* start, the end, or a stretch around a probe of the bisection
EventFailures(end) ==
    {<<1, 0>>, <<0, 0>>, <<end, end>>} \cup
    {<<(end \div 8) * k - 5, (end \div 8) * k + 5>> : k \in {2, 4, 5}}

EventInit ==
    /\ evIn \in {[kind |-> k, planetId |-> id, end |-> e, cross |-> c,
                  failLo |-> f[1], failHi |-> f[2]] :
                    k \in {"sign", "retrograde"}, id \in {0, 4}, e \in EventEnds,
                    c \in UNION {EventCrossings(e2) : e2 \in EventEnds},
                    f \in UNION {EventFailures(e2) : e2 \in EventEnds}}
    /\ evIn.cross \in EventCrossings(evIn.end)
    /\ <<evIn.failLo, evIn.failHi>> \in EventFailures(evIn.end)
    /\ evDone = FALSE
    /\ evOut = NoEvent
    /\ evFailed = FALSE
    /\ AspectIdle /\ BuildIdle /\ HouseIdle /\ MotionIdle /\ MomentIdle /\ SolarIdle /\ LinearIdle /\ PeakIdle /\ BatchIdle /\ SummaryIdle /\ ChartIdle /\ EmitIdle /\ FrameIdle /\ CatalogIdle /\ ResolverIdle

\* checkPlanetSignChange or checkPlanetRetrogradeChange, by evIn.kind
CheckPlanetChange ==
    /\ ~evDone
    /\ LET r == checkPlanetChange(evIn)
       IN  evOut' = r.out /\ evFailed' = r.failed
    /\ evDone' = TRUE
    /\ UNCHANGED evIn
    /\ UNCHANGED exceptEv

SpecEvent == EventInit /\ [][CheckPlanetChange]_vars

\* C16: an invalid flag at the start, at the end or at a probe is handed to
\* the caller as a fetch failure, distinguishable from 'no event' and from
\* 'predicate false at that instant'.
C16_FailurePropagated ==
    (evDone /\ evFailed) => evOut.outcome = "error"

EndpointFails == queryFails(evIn, 0) \/ queryFails(evIn, evIn.end)

SignsDiffer == stateAt(evIn, 0) # stateAt(evIn, evIn.end)

\* C30: for every body of the planet table, the Sun (ephemeris id 0)
\* included, checkPlanetSignChange returns null only when an ephemeris query
\* at start or end fails or the two signs are equal; a body whose sign at
\* start differs from its sign at end gets a sign change reported.
C30_SignChangeReported ==
    (evDone /\ evIn.kind = "sign") =>
        (evOut.outcome = "null" <=> (EndpointFails \/ ~SignsDiffer))

\* the part of C30 that holds: every body whose ephemeris id is not 0
C30_OtherBodiesReported ==
    (evDone /\ evIn.kind = "sign" /\ evIn.planetId # 0) =>
        (evOut.outcome = "null" <=> (EndpointFails \/ ~SignsDiffer))

\* C17: a position without a longitude or a longitudeSpeed makes the motion
\* classifier and the peak estimator fail with an invalid-input error; in
\* particular estimatePeakDate never returns an invalid Date.
C17_NoInvalidDate ==
    pkDone => ~pkResult.invalid

(***************************************************************************)
(* The two guards against a stationary body, on one speed                  *)
(***************************************************************************)
\* microdegrees a day, on both sides of both thresholds
GuardSpeeds == {0, 50, minSunSpeed, 500, 800, stationarySpeed, Million}

GuardInit ==
    /\ srPc = "loop"
    /\ srTarget \in SolarTargets
    /\ srJD = 0
    /\ srI = 0
    /\ srQueries = 0
    /\ srLast = NoQuery
    /\ srResult = NoMoment
    /\ pkCalc = "idle"
    /\ pkNatal = 0
    /\ pkTarget = 0
    /\ pkTransit \in {[longitude |-> l, longitudeSpeed |-> v, speedDefined |-> TRUE] :
                        l \in {0, 359990}, v \in GuardSpeeds}
    /\ pkDone = FALSE
    /\ pkResult = NoPeak
    /\ AspectIdle /\ BuildIdle /\ HouseIdle /\ MotionIdle /\ MomentIdle /\ LinearIdle /\ BatchIdle /\ EventIdle /\ SummaryIdle /\ ChartIdle /\ EmitIdle /\ FrameIdle /\ CatalogIdle /\ ResolverIdle

\* an iteration of the solver on a Sun that stays 15 microdegrees short of
\* the target and moves at the speed handed to the peak estimator
GuardSolve ==
    /\ srPc = "loop"
    /\ srI < maxIterations
    /\ SolarStep([rflagOk |-> TRUE, longitude |-> (srTarget - 15) % CircleMicro,
                  longitudeSpeed |-> pkTransit.longitudeSpeed])
    /\ UNCHANGED srTarget
    /\ UNCHANGED exceptSr

GuardNext == GuardSolve \/ SolarGiveUp \/ EstimatePeakDate

SpecGuard == GuardInit /\ [][GuardNext]_vars

\* C18: the solver and the peak estimator test |speed| against the same
\* threshold before dividing, and answer a speed below it in the same way:
\* no division, no estimate.
C18_SameGuard ==
    (pkDone /\ srPc # "loop") =>
        ((srPc = "threw" /\ srResult.null) <=> pkResult.null)

(***************************************************************************)
(* updateTransitSummary: the summary kept beside the aspect list           *)
(***************************************************************************)
\* h[k] = (h[k] || 0) + 1
Bumped(h, k) ==
    IF k \in DOMAIN h THEN [h EXCEPT ![k] = @ + 1]
    ELSE [x \in DOMAIN h \cup {k} |-> IF x = k THEN 1 ELSE h[x]]

\* the property name a missing field is filed under
Undefined == "undefined"

\* aspect.aspect is the name itself: the transit calculator reads .name of it
aspectKey(c, aspect) == IF c = "transit" THEN Undefined ELSE aspect.aspect

\* the synastry records call the bodies planet1 and planet2, the summary
\* reads transitingPlanet and natalPlanet
transitingKey(c, aspect) == IF c = "synastry" THEN Undefined ELSE aspect.planet1

natalKey(c, aspect) == IF c = "synastry" THEN Undefined ELSE aspect.planet2

updateTransitSummary(c, summary, aspect) ==
    [total |-> summary.total + 1,
     applying |-> summary.applying + (IF aspect.applying THEN 1 ELSE 0),
     separating |-> summary.separating + (IF aspect.applying THEN 0 ELSE 1),
     exact |-> summary.exact + (IF aspect.orb < HalfDegree THEN 1 ELSE 0),
     byAspect |-> Bumped(summary.byAspect, aspectKey(c, aspect)),
     byTransitingPlanet |-> Bumped(summary.byTransitingPlanet, transitingKey(c, aspect)),
     byNatalPlanet |-> Bumped(summary.byNatalPlanet, natalKey(c, aspect))]

RECURSIVE summaryOf(_, _, _)
\* the summary after the first n records pushed
summaryOf(c, pushed, n) ==
    IF n = 0 THEN EmptySummary
    ELSE updateTransitSummary(c, summaryOf(c, pushed, n - 1), pushed[n])

\* calculateTransits (transit calculator) and calculateAspects (synastry):
\* [aspects, summary]
calculateWithSummary(c, natalPositions, transitPositions) ==
    LET cp == crossLoop(transitPositions, natalPositions)
        pushed == Pushed([k \in 1..Len(cp) |->
                     crossRecord(c, TRUE, c = "synastry",
                                 transitPositions[cp[k][1]], natalPositions[cp[k][2]])])
    IN  [aspects |-> SortByOrb(pushed), summary |-> summaryOf(c, pushed, Len(pushed))]

SummaryInit ==
    /\ smCalc = "idle"
    /\ smTransit \in PositionMaps(BodyOrder, NumBodiesA, TRUE)
    /\ smNatal \in PositionMaps(BodyOrder, NumBodiesB, TRUE)
    /\ smAspects = << >>
    /\ smSummary = EmptySummary
    /\ AspectIdle /\ BuildIdle /\ HouseIdle /\ MotionIdle /\ MomentIdle /\ SolarIdle /\ LinearIdle /\ PeakIdle /\ BatchIdle /\ EventIdle /\ ChartIdle /\ EmitIdle /\ FrameIdle /\ CatalogIdle /\ ResolverIdle

CalculateWithSummary ==
    /\ smCalc = "idle"
    /\ \E c \in {"transit", "synastry"} :
        LET r == calculateWithSummary(c, smNatal, smTransit)
        IN  /\ smCalc' = c
            /\ smAspects' = r.aspects
            /\ smSummary' = r.summary
    /\ UNCHANGED <<smNatal, smTransit>>
    /\ UNCHANGED exceptSm

SpecSummary == SummaryInit /\ [][CalculateWithSummary]_vars

Having(P(_)) == Len(SelectSeq(smAspects, P))

Entry(h, k) == IF k \in DOMAIN h THEN h[k] ELSE 0

SummaryNames == {transitAspects[i].name : i \in CatalogIndex}

SummaryBodies == {BodyOrder[i] : i \in 1..Len(BodyOrder)}

\* C19: total is the number of aspects returned, applying + separating =
\* total, exact counts the aspects with orb < 0.5, and each histogram entry
\* counts the returned aspects with that name, transiting body, natal body.
C19_SummaryCounts ==
    smCalc # "idle" =>
        /\ smSummary.total = Len(smAspects)
        /\ smSummary.applying + smSummary.separating = smSummary.total
        /\ smSummary.exact = Having(LAMBDA r : r.orb < HalfDegree)
        /\ \A n \in SummaryNames :
              Entry(smSummary.byAspect, n) = Having(LAMBDA r : r.aspect = n)
        /\ \A b \in SummaryBodies :
              /\ Entry(smSummary.byTransitingPlanet, b) = Having(LAMBDA r : r.planet1 = b)
              /\ Entry(smSummary.byNatalPlanet, b) = Having(LAMBDA r : r.planet2 = b)


(***************************************************************************)
(* generateChart: natal aspects and the compatibility filter               *)
(***************************************************************************)
signs ==
    <<"Aries", "Taurus", "Gemini", "Cancer", "Leo", "Virgo", "Libra",
      "Scorpio", "Sagittarius", "Capricorn", "Aquarius", "Pisces">>

\* signs[Math.floor(longitude / 30)]
getZodiacSign(longitude) == signs[(longitude \div SignWidth) + 1]

elementGroups ==
    { {"Aries", "Leo", "Sagittarius"}, {"Taurus", "Virgo", "Capricorn"},
      {"Gemini", "Libra", "Aquarius"}, {"Cancer", "Scorpio", "Pisces"} }

polarityGroups ==
    { {"Aries", "Gemini", "Leo", "Libra", "Sagittarius", "Aquarius"},
      {"Taurus", "Cancer", "Virgo", "Scorpio", "Capricorn", "Pisces"} }

isCompatibleByElement(sign1, sign2) ==
    \E group \in elementGroups : sign1 \in group /\ sign2 \in group

\* the polarity test answered by element
isCompatibleByPolarity_element(sign1, sign2) ==
    \E group \in elementGroups : sign1 \in group /\ sign2 \in group

isCompatibleByPolarity(sign1, sign2) ==
    \E group \in polarityGroups : sign1 \in group /\ sign2 \in group

\* positions[planet].sign
signOf(positions, planet) ==
    getZodiacSign(positions[CHOOSE k \in DOMAIN positions :
                                positions[k].name = planet].longitude)

\* whether the forEach callback of filterAspects pushes the aspect
filterKeeps(aspect, positions) ==
    LET sign1 == signOf(positions, aspect.planet1)
        sign2 == signOf(positions, aspect.planet2)
    IN  /\ ~(aspect.planet1 = "NNode" /\ aspect.aspect = "opposition")
        /\ ~(aspect.aspect = "square" /\ isCompatibleByElement(sign1, sign2))
        /\ ~(aspect.aspect = "trine" /\ ~isCompatibleByElement(sign1, sign2))
        /\ ~(aspect.aspect = "sextile" /\ ~isCompatibleByPolarity(sign1, sign2))
        /\ ~(aspect.aspect = "conjunction" /\ sign1 # sign2)
        /\ aspect.planet1 # "" /\ aspect.planet2 # ""

\* filterAspects(inputAspects, positions): the function declares two
\* parameters; the third argument of its callers, the switch, is not received
filterAspects(inputAspects, positions) ==
    SelectSeq(inputAspects, LAMBDA aspect : filterKeeps(aspect, positions))

\* keys of the planets of the chart: bodies whose query failed are absent
ChartBodies == <<"Sun", "NNode", "Chiron">>

ChartLongitudes == {1000, 29000, 31000, 59000, 119000, 121000, 211000}

ChartPositions(names, withSpeed) ==
    {[k \in DOMAIN names |-> [name |-> names[k], longitude |-> f[k],
                              longitudeSpeed |-> BodySpeed(names[k]),
                              speedDefined |-> withSpeed]] :
        f \in [DOMAIN names -> ChartLongitudes]}

ChartInit ==
    /\ gcSwitch \in BOOLEAN
    /\ gcPlanets \in ChartPositions(ChartBodies, TRUE)
    /\ gcAngles \in ChartPositions(AngleOrder, FALSE)
    /\ gcMatched = << >>
    /\ gcAspects = << >>
    /\ gcAgain = << >>
    /\ gcPc = "call"
    /\ AspectIdle /\ BuildIdle /\ HouseIdle /\ MotionIdle /\ MomentIdle /\ SolarIdle /\ LinearIdle /\ PeakIdle /\ BatchIdle /\ EventIdle /\ SummaryIdle /\ EmitIdle /\ FrameIdle /\ CatalogIdle /\ ResolverIdle

\* generateChart from calculateNatalAspects on
GenerateChart ==
    /\ gcPc = "call"
    /\ LET aspects0 == calculateNatalAspects(gcPlanets, gcAngles)
       IN  /\ gcMatched' = aspects0
           /\ gcAspects' = filterAspects(aspects0, gcPlanets \o gcAngles)
    /\ gcPc' = "charted"
    /\ UNCHANGED <<gcSwitch, gcPlanets, gcAngles, gcAgain>>
    /\ UNCHANGED exceptGc

\* filterAspects on the list it returned
FilterAgain ==
    /\ gcPc = "charted"
    /\ gcAgain' = filterAspects(gcAspects, gcPlanets \o gcAngles)
    /\ gcPc' = "refiltered"
    /\ UNCHANGED <<gcSwitch, gcPlanets, gcAngles, gcMatched, gcAspects>>
    /\ UNCHANGED exceptGc

ChartNext == GenerateChart \/ FilterAgain

SpecChart == ChartInit /\ [][ChartNext]_vars

\* C21: with considerAspectsCompatibility = false generateChart keeps every
\* matched aspect whatever the signs are; the suppression rules act only
\* when the switch is true.
C21_SwitchControlsFilter ==
    (gcPc # "call" /\ ~gcSwitch) => gcAspects = gcMatched

\* fire, earth, air, water and yang, yin by the place of the sign in the
\* zodiac
SignIndex(positions, planet) ==
    positions[CHOOSE k \in DOMAIN positions :
                  positions[k].name = planet].longitude \div SignWidth
ChartPoints == gcPlanets \o gcAngles
SameSign(r) ==
    SignIndex(ChartPoints, r.planet1) = SignIndex(ChartPoints, r.planet2)
SameElement(r) ==
    SignIndex(ChartPoints, r.planet1) % 4 = SignIndex(ChartPoints, r.planet2) % 4
SamePolarity(r) ==
    SignIndex(ChartPoints, r.planet1) % 2 = SignIndex(ChartPoints, r.planet2) % 2

Suppressed(r) ==
    \/ r.aspect = "square" /\ SameElement(r)
    \/ r.aspect = "trine" /\ ~SameElement(r)
    \/ r.aspect = "sextile" /\ ~SamePolarity(r)
    \/ r.aspect = "conjunction" /\ ~SameSign(r)

\* C22: the filter returns the input aspects in input order less the squares
\* whose signs share an element, the trines whose signs do not, the sextiles
\* whose signs differ in polarity and the conjunctions across two signs;
\* filtering its output again removes nothing.
C22_FilterOutput ==
    /\ gcPc # "call" =>
          gcAspects = SelectSeq(gcMatched, LAMBDA r : ~Suppressed(r))
    /\ gcPc = "refiltered" => gcAgain = gcAspects

\* a chart that loses a square and a conjunction and keeps a sextile
C22_Witness ==
    /\ gcPc = "refiltered"
    /\ \E k \in DOMAIN gcMatched :
          gcMatched[k].aspect = "square" /\ Suppressed(gcMatched[k])
    /\ \E k \in DOMAIN gcMatched :
          gcMatched[k].aspect = "conjunction" /\ Suppressed(gcMatched[k])
    /\ \E k \in DOMAIN gcAspects : gcAspects[k].aspect = "sextile"

(***************************************************************************)
(* Emitted chart data: calculateHouses and calculatePlanetaryPositions      *)
(*                                                                         *)
(* The ephemeris answers in 1/10000 degree, in [0, 360); what is emitted    *)
(* after toFixed(3) is in millidegrees.                                     *)
(***************************************************************************)
\* parseFloat(x.toFixed(3)), in millidegrees, of x in 1/10000 degree
toFixed3(x) == (x + 5) \div 10

\* determinePlanetHouse of a longitude in 1/10000 degree
determinePlanetHouseRaw(planetLongitude, houseCusps) ==
    LET rem == JsRem(planetLongitude, Circle * 10)
        normalizedLong == IF rem < 0 THEN rem + Circle * 10 ELSE rem
        i == houseLoop(normalizedLong, [k \in DOMAIN houseCusps |-> houseCusps[k] * 10])
    IN  IF i = 0 THEN [number |-> 1, fallback |-> TRUE]
        ELSE [number |-> i, fallback |-> FALSE]

\* result.house of swe_houses for equal houses from the ascendant
houseResult(ascendant) ==
    [i \in 1..NumHouses |-> (ascendant + (i - 1) * SignWidth * 10) % (Circle * 10)]

calculateHouses(ascendant, mc) ==
    [houses |-> [i \in 1..NumHouses |-> toFixed3(houseResult(ascendant)[i])],
     angles |->
        << [name |-> "AS", longitude |-> toFixed3(ascendant)],
           [name |-> "MC", longitude |-> toFixed3(mc)],
           [name |-> "DS", longitude |-> toFixed3((ascendant + HalfCircle * 10) % (Circle * 10))],
           [name |-> "IC", longitude |-> toFixed3((mc + HalfCircle * 10) % (Circle * 10))] >>]

EmitBodies == <<"Sun", "NNode">>

\* planetData of one body
planetData(name, longitude, houses) ==
    [name |-> name, longitude |-> toFixed3(longitude),
     longitudeSpeed |-> BodySpeed(name), speedDefined |-> TRUE,
     house |-> determinePlanetHouseRaw(longitude, houses).number]

calculateSouthNode(NNode, houses) ==
    LET southNodeLongitude == (NNode.longitude + HalfCircle) % Circle
    IN  [name |-> "SNode", longitude |-> southNodeLongitude,
         longitudeSpeed |-> NNode.longitudeSpeed, speedDefined |-> TRUE,
         house |-> determinePlanetHouse(southNodeLongitude, houses).number]

\* calculatePlanetaryPositions(julianDay, houses) when every query succeeds
emitPositions(bodies, houses) ==
    LET positions == [k \in DOMAIN EmitBodies |->
                         planetData(EmitBodies[k], bodies[k], houses)]
        node == positions[CHOOSE k \in DOMAIN positions : positions[k].name = "NNode"]
    IN  Append(positions, calculateSouthNode(node, houses))

\* the first two angles, as generateChart passes them to calculateNatalAspects
natalAngles(angles) ==
    [k \in 1..2 |-> [name |-> angles[k].name, longitude |-> angles[k].longitude,
                     longitudeSpeed |-> 0, speedDefined |-> FALSE]]

RawLongitudes == {0, 300004, 1799996, 3599994, 3599996}

EmitInit ==
    /\ emBodies \in [DOMAIN EmitBodies -> RawLongitudes]
    /\ emAsc \in RawLongitudes
    /\ emMc \in RawLongitudes
    /\ emDone = FALSE
    /\ emChart = NoChart
    /\ AspectIdle /\ BuildIdle /\ HouseIdle /\ MotionIdle /\ MomentIdle /\ SolarIdle /\ LinearIdle /\ PeakIdle /\ BatchIdle /\ EventIdle /\ SummaryIdle /\ ChartIdle /\ FrameIdle /\ CatalogIdle /\ ResolverIdle

EmitChart ==
    /\ ~emDone
    /\ LET h == calculateHouses(emAsc, emMc)
           planets0 == emitPositions(emBodies, h.houses)
       IN  emChart' = [houses |-> h.houses, angles |-> h.angles,
                       planets |-> planets0,
                       aspects |-> calculateNatalAspects(planets0, natalAngles(h.angles))]
    /\ emDone' = TRUE
    /\ UNCHANGED <<emBodies, emAsc, emMc>>
    /\ UNCHANGED exceptEm

SpecEmit == EmitInit /\ [][EmitChart]_vars

InCircle(x) == 0 <= x /\ x < Circle

CatalogNames == {"conjunction", "opposition", "trine", "square", "sextile"}

\* C23: every emitted longitude of a body, of a derived point (SNode, DS,
\* IC) and of a cusp, as rounded to three decimals, lies in [0, 360); every
\* orb is non-negative; every house number is in 1..12; every aspect name is
\* one of the five catalog names.
C23_EmittedRanges ==
    emDone =>
        /\ \A k \in DOMAIN emChart.planets :
              /\ InCircle(emChart.planets[k].longitude)
              /\ emChart.planets[k].house \in 1..NumHouses
        /\ \A k \in DOMAIN emChart.angles : InCircle(emChart.angles[k].longitude)
        /\ \A k \in DOMAIN emChart.houses : InCircle(emChart.houses[k])
        /\ \A k \in DOMAIN emChart.aspects :
              /\ emChart.aspects[k].orb >= 0
              /\ emChart.aspects[k].aspect \in CatalogNames

\* the part of C23 that rounding does not touch
C23_OrbsHousesNames ==
    emDone =>
        /\ \A k \in DOMAIN emChart.planets : emChart.planets[k].house \in 1..NumHouses
        /\ \A k \in DOMAIN emChart.planets : emChart.planets[k].longitude \in 0..Circle
        /\ \A k \in DOMAIN emChart.aspects :
              /\ emChart.aspects[k].orb >= 0
              /\ emChart.aspects[k].aspect \in CatalogNames

(***************************************************************************)
(* Inputs of the engine operations: what an operation writes to them       *)
(*                                                                         *)
(* A position object is [name, longitude, longitudeSpeed, speedDefined,    *)
(* house, natal_house]; a house field of 0 is a field the object does not  *)
(* have.                                                                   *)
(***************************************************************************)
\* positions[key][fieldName] = determinePlanetHouse(...).number, for every key
addHouse(positions, houses, fieldName) ==
    [k \in DOMAIN positions |->
        LET number == determinePlanetHouse(positions[k].longitude, houses).number
        IN  IF fieldName = "house"
            THEN [positions[k] EXCEPT !.house = number]
            ELSE [positions[k] EXCEPT !.natal_house = number]]

FrameOps == {"addHouse", "calculateNatalAspects", "calculateAspectsOfTwoCharts",
             "calculateSolarReturn"}

FrameLongitudes == {0, 45000, 181000}

FramePositions(names, withSpeed, housed) ==
    {[k \in DOMAIN names |->
         [name |-> names[k], longitude |-> f[k],
          longitudeSpeed |-> BodySpeed(names[k]), speedDefined |-> withSpeed,
          house |-> IF housed THEN determinePlanetHouse(f[k], EqualCusps).number ELSE 0,
          natal_house |-> 0]] :
        f \in [DOMAIN names -> FrameLongitudes]}

FrameCusps == {EqualCusps, Rotated(EqualCusps, 1), Rotated(EqualCusps, 7)}

FrameInit ==
    /\ frOp \in FrameOps
    /\ frPositions \in FramePositions(<<"Sun", "NNode">>, TRUE, TRUE)
    /\ frAngles \in FramePositions(<<"AS">>, FALSE, FALSE)
    /\ frCusps \in FrameCusps
    /\ frGiven = <<frPositions, frAngles, frCusps>>
    /\ frDone = FALSE
    /\ frResult = << >>
    /\ AspectIdle /\ BuildIdle /\ HouseIdle /\ MotionIdle /\ MomentIdle /\ SolarIdle /\ LinearIdle /\ PeakIdle /\ BatchIdle /\ EventIdle /\ SummaryIdle /\ ChartIdle /\ EmitIdle /\ CatalogIdle /\ ResolverIdle

\* addHouse(angles, houses) and addHouse(planets, houses, 'natal_house'):
\* the objects written are the ones received, and they are returned
AddHouse ==
    /\ frOp = "addHouse" /\ ~frDone
    /\ \E fieldName \in {"house", "natal_house"} :
          /\ frPositions' = addHouse(frPositions, frCusps, fieldName)
          /\ frAngles' = addHouse(frAngles, frCusps, fieldName)
    /\ frResult' = <<frPositions', frAngles'>>
    /\ frDone' = TRUE
    /\ UNCHANGED <<frOp, frCusps, frGiven>>
    /\ UNCHANGED exceptFr

FrameNatalAspects ==
    /\ frOp = "calculateNatalAspects" /\ ~frDone
    /\ frResult' = calculateNatalAspects(frPositions, frAngles)
    /\ frDone' = TRUE
    /\ UNCHANGED <<frOp, frPositions, frAngles, frCusps, frGiven>>
    /\ UNCHANGED exceptFr

FrameTwoCharts ==
    /\ frOp = "calculateAspectsOfTwoCharts" /\ ~frDone
    /\ \E isTransit \in BOOLEAN :
          frResult' = calculateAspectsOfTwoCharts(frPositions, frPositions, isTransit)
    /\ frDone' = TRUE
    /\ UNCHANGED <<frOp, frPositions, frAngles, frCusps, frGiven>>
    /\ UNCHANGED exceptFr

\* calculateSolarReturn(solarReturnData, natalChart): the chart it annotates
\* with natal_house is the one generateChart has just built; natalChart is
\* frPositions, frAngles and frCusps
FrameSolarReturn ==
    /\ frOp = "calculateSolarReturn" /\ ~frDone
    /\ \E planets0 \in FramePositions(<<"Sun", "NNode">>, TRUE, TRUE),
          angles0 \in FramePositions(<<"AS">>, FALSE, TRUE) :
          frResult' = <<addHouse(planets0, frCusps, "natal_house"),
                        addHouse(angles0, frCusps, "natal_house")>>
    /\ frDone' = TRUE
    /\ UNCHANGED <<frOp, frPositions, frAngles, frCusps, frGiven>>
    /\ UNCHANGED exceptFr

FrameNext == AddHouse \/ FrameNatalAspects \/ FrameTwoCharts \/ FrameSolarReturn

SpecFrame == FrameInit /\ [][FrameNext]_vars

\* C24: no operation writes to a position, angle or cusp object it was
\* given: after the aspect builders, addHouse and the solar-return
\* computation every input object is field for field what it was.
C24_InputsUnchanged ==
    frDone => <<frPositions, frAngles, frCusps>> = frGiven

\* the part of C24 that holds: every operation but addHouse
C24_OthersLeaveInputs ==
    (frDone /\ frOp # "addHouse") => <<frPositions, frAngles, frCusps>> = frGiven

(***************************************************************************)
(* The catalogs under the configured orbs: every angle of [0, 180]         *)
(***************************************************************************)
\* every half degree from 0 to 180
CatalogAngles == {k * HalfDegree : k \in 0..(HalfCircle \div HalfDegree)}

CatalogInit ==
    /\ ctMatcher \in {"natal"} \cup Calculators
    /\ ctOwner \in Owners
    /\ ctAngle \in CatalogAngles
    /\ ctFound = 0 - 1
    /\ AspectIdle /\ BuildIdle /\ HouseIdle /\ MotionIdle /\ MomentIdle /\ SolarIdle /\ LinearIdle /\ PeakIdle /\ BatchIdle /\ EventIdle /\ SummaryIdle /\ ChartIdle /\ EmitIdle /\ FrameIdle /\ ResolverIdle

FindNatalAspect ==
    /\ ctMatcher = "natal" /\ ctFound < 0
    /\ ctFound' = findNatalAspect(ctAngle)
    /\ UNCHANGED <<ctMatcher, ctOwner, ctAngle>>
    /\ UNCHANGED exceptCt

\* findTransitAspect of two longitudes that are ctAngle apart
FindTransitAspectAt ==
    /\ ctMatcher # "natal" /\ ctFound < 0
    /\ \E natalLong \in {0, Circle - HalfDegree} :
          ctFound' = firstMatch(ctMatcher, (natalLong + ctAngle) % Circle,
                                natalLong, ctOwner)
    /\ UNCHANGED <<ctMatcher, ctOwner, ctAngle>>
    /\ UNCHANGED exceptCt

CatalogNext == FindNatalAspect \/ FindTransitAspectAt

SpecCatalog == CatalogInit /\ [][CatalogNext]_vars

\* the orb the matcher in use compares entry i with
OrbInUse(i) ==
    IF ctMatcher = "natal" THEN natalAspects[i].orb
    ELSE getTransitOrb(ctMatcher, ctOwner, orbArgument(ctMatcher, transitAspects[i]))

\* natalAspects and transitAspects list the same angles in the same order
AngleDiff(i) == Abs(ctAngle - natalAspects[i].angle)

Satisfying == {i \in 1..Len(natalAspects) : AngleDiff(i) <= OrbInUse(i)}

\* C26: with the configured orbs at most one catalog entry satisfies
\* diff <= orb for any angle of [0, 180]; the entry findNatalAspect and
\* findTransitAspect return is that one, it is the entry of least diff, and
\* no other enumeration order of the catalog would return another.
C26_AtMostOneMatch ==
    ctFound >= 0 =>
        /\ Cardinality(Satisfying) <= 1
        /\ ctFound = 0 <=> Satisfying = {}
        /\ ctFound # 0 =>
              /\ Satisfying = {ctFound}
              /\ \A j \in 1..Len(natalAspects) : AngleDiff(ctFound) <= AngleDiff(j)

\* a sextile at the edge of its natal orb, 54 degrees
C26_Witness ==
    /\ ctMatcher = "natal"
    /\ ctAngle = 54000
    /\ ctFound = 5

(***************************************************************************)
(* The house resolvers side by side                                        *)
(***************************************************************************)
\* the wrap branch written with "and"
getHouseForLongitude_andWrap(longitude, houseCusps) ==
    LET hits == {i \in 1..NumHouses :
                    LET cuspStart == houseCusps[i]
                        cuspEnd == houseCusps[(i % NumHouses) + 1]
                    IN  IF cuspStart < cuspEnd
                        THEN longitude >= cuspStart /\ longitude < cuspEnd
                        ELSE longitude >= cuspStart /\ longitude < cuspEnd}
    IN  IF hits = {} THEN NumHouses ELSE MinOf(hits)

\* getHouseForLongitude of transit2.js; houseCusps[1..12], index 0 unused
getHouseForLongitude(longitude, houseCusps) ==
    LET hits == {i \in 1..NumHouses :
                    LET cuspStart == houseCusps[i]
                        cuspEnd == houseCusps[(i % NumHouses) + 1]
                    IN  IF cuspStart < cuspEnd
                        THEN longitude >= cuspStart /\ longitude < cuspEnd
                        ELSE longitude >= cuspStart \/ longitude < cuspEnd}
    IN  IF hits = {} THEN NumHouses ELSE MinOf(hits)

\* the modules that carry a copy of determinePlanetHouse
ResolverCopies == {"natal", "synastry", "progressive", "transit", "combined"}

Resolvers == ResolverCopies \cup {"getHouseForLongitude"}

\* unequal houses: a quadrant system at a high latitude
UnequalCusps ==
    <<15000, 33000, 56000, 95000, 140000, 172000,
      195000, 213000, 236000, 275000, 320000, 352000>>

\* the cusps of a chart whose i-th cusp is at d degrees more
Turned(seq, d) == [i \in DOMAIN seq |-> (seq[i] + d) % Circle]

ResolverCusps ==
    {Turned(c, d) : c \in {EqualCusps, UnequalCusps},
                    d \in {0, 1, 7999, 45000, 100000, 188000, 300500}}

ResolverInit ==
    /\ rsCusps \in ResolverCusps
    /\ rsLon \in {Norm(rsCusps[i] + e) : i \in {1, 4, 7, 12}, e \in {0 - 1, 0, 1}}
                 \cup {0, Circle - 1}
    /\ rsNumber = [r \in Resolvers |-> 0]
    /\ AspectIdle /\ BuildIdle /\ HouseIdle /\ MotionIdle /\ MomentIdle /\ SolarIdle /\ LinearIdle /\ PeakIdle /\ BatchIdle /\ EventIdle /\ SummaryIdle /\ ChartIdle /\ EmitIdle /\ FrameIdle /\ CatalogIdle

\* determinePlanetHouse of one of the five modules: the copies differ in the
\* fields they return beside number, not in how number is found
DeterminePlanetHouseCopy ==
    /\ \E m \in ResolverCopies :
          /\ rsNumber[m] = 0
          /\ rsNumber' = [rsNumber EXCEPT
                             ![m] = determinePlanetHouse(rsLon, rsCusps).number]
    /\ UNCHANGED <<rsCusps, rsLon>>
    /\ UNCHANGED exceptRs

GetHouseForLongitude ==
    /\ rsNumber["getHouseForLongitude"] = 0
    /\ rsNumber' = [rsNumber EXCEPT
                       !["getHouseForLongitude"] = getHouseForLongitude(rsLon, rsCusps)]
    /\ UNCHANGED <<rsCusps, rsLon>>
    /\ UNCHANGED exceptRs

ResolverNext == DeterminePlanetHouseCopy \/ GetHouseForLongitude

SpecResolver == ResolverInit /\ [][ResolverNext]_vars

\* C28: for well-formed cusps and a longitude in [0, 360) every resolver
\* (the five copies of determinePlanetHouse and getHouseForLongitude)
\* returns the same house number.
C28_ResolversAgree ==
    \A a \in Resolvers : \A b \in Resolvers :
        (rsNumber[a] # 0 /\ rsNumber[b] # 0) => rsNumber[a] = rsNumber[b]

\* every resolver has answered for a longitude in the house that holds 0 Aries
C28_Witness ==
    /\ \A r \in Resolvers : rsNumber[r] # 0
    /\ rsNumber["getHouseForLongitude"] \in 2..(NumHouses - 1)
    /\ rsCusps[rsNumber["getHouseForLongitude"] + 1]
           < rsCusps[rsNumber["getHouseForLongitude"]]

====
